---- MODULE Spec2Model ----
(***************************************************************************)
(* nefcode.io: the progress ledger (IndexedDB table `progress`), the       *)
(* progress-version counter (table `meta`), the four version-stamped       *)
(* statistics caches, and the aggregate computations that fill them.       *)
(*                                                                         *)
(* Every `await` of the TypeScript source is a suspension point: an async  *)
(* function is a process whose steps are the code between two awaits.      *)
(* A Dexie call outside db.transaction() is its own auto-committed         *)
(* IndexedDB transaction, so it is one atomic step; the body of            *)
(* db.transaction("rw", db.meta, ...) holds the table until it commits.    *)
(***************************************************************************)
EXTENDS Integers, Sequences, FiniteSets, TLC

\* ------------------------------------------------------------------ bounds
\* Date.now() values the model distinguishes: 0..MaxClock.
MaxClock == 1
\* Ledger mutation calls issued in one behaviour.
MaxMutations == 2
\* bumpProgressVersion() calls issued in one behaviour.
MaxBumps == 3
\* Stand-alone cache module calls (read*Cache / write*Cache) issued in one behaviour.
MaxCacheOps == 3
\* getCompanyStats() requests issued in one behaviour.
MaxRequests == 2
\* toggleCompleted calls issued in one behaviour of the aggregate computations.
MaxAggToggles == 1
\* getPinnedCompanyStats() requests issued in one behaviour.
MaxPinnedRequests == 2
\* longest link string fed to the normalizers, not counting the scheme-and-host prefix
MaxLen == 3
\* longest item list and largest limit passed to withConcurrency
MaxItems == 4
MaxLimit == 3
MaxPopupRequests == 3
MaxPopupTicks == 3

\* ------------------------------------------------------------ value domains
Links == {"p1", "p2"}
Difficulty == {"EASY", "MEDIUM", "HARD"}
Null == -1
MinutesArgs == {Null, 5}
NotesArgs == {Null, 7}

ManifestAts == {"g1", "g2"}
Companies == {"A", "B"}
\* A company of the manifest whose list of files has no problem rows at all.
EmptyCompanies == {"E"}
ListUrls == {"f1", "f2", "f3"}
Tables == {"companyCache", "listStatsCache", "pinnedLandingCache", "companyFileQuickCache"}

\* The calls of each kind that may be in flight together.
MutIds == {1, 2}
BumpIds == {1, 2}
CacheIds == {1, 2}
CompIds == {1, 2}
PinIds == {1, 2}

VARIABLES
    ledger,      \* db.progress: link -> ProblemProgress row (exists = FALSE: no row)
    metaRow,     \* db.meta row "progress_version"
    metaLock,    \* the bump call whose rw transaction holds db.meta, 0 when none
    clock,       \* Date.now()
    cache,       \* the four cache tables: table -> key -> row
    mut,         \* ledger mutation calls (toggleCompleted / setMinutes / setNotes)
    bump,        \* bumpProgressVersion calls
    cacheCall,   \* stand-alone read*Cache / write*Cache calls
    nIssued,     \* history: calls issued, by kind
    nCommitted,  \* history: ledger mutations whose put has been applied
    nToggles,    \* history: link -> toggleCompleted calls applied
    bumpRets,    \* history: the values bumpProgressVersion returned, in order
    verRead,     \* history: last getProgressVersion() result and the bumps committed then
    dirty,       \* history: cache entries written before a later mutation of an item of their scope
    comp,        \* getCompanyStats requests, each with its caller's AbortSignal
    inFlight,    \* useCompanyStatsLazy: inFlightRef.current, a set of <<manifestAt, company>>
    ended,       \* history: the getCompanyStats request that ended last, and its result
    pinComp,     \* getPinnedCompanyStats requests, each with its caller's AbortSignal
    pinEnded,    \* history: the getPinnedCompanyStats request that ended last, and its result
    linkCall,    \* a link string passing through normalizeLink / normalizeProblemLink
    putError,    \* history: the ledger mutation call that was rejected last
    visible,     \* CompaniesPage: visibleNames, in the order the cards came into view
    pass,        \* useCompanyStatsLazy: the runs of the scheduling effect, each with its AbortController
    statsByCompany, \* useCompanyStatsLazy: the companies that have a published aggregate
    failed,      \* history: the companies whose getCompanyStats call threw under the scheduler
    pool,        \* withConcurrency calls: queue, workers and the invocations of fn
    lastManifestRef,  \* useCompanyStatsLazy: lastManifestRef.current, the manifestAt prop the effects last ran with
    popupInFlight,   \* tracker background worker: the circuit breaker's flag
    lastPopupAt,     \* tracker background worker: Date.now() of the last admitted request
    popupReq,        \* tracker background worker: the OPEN_SAVE_POPUP handlers (position, response)
    dateNow          \* tracker background worker: Date.now(), in ms

dbVars == <<ledger, metaRow, metaLock, cache>>
callVars == <<mut, bump, cacheCall>>
histVars == <<nIssued, nCommitted, nToggles, bumpRets, verRead, dirty>>
companyVars == <<comp, inFlight, ended>>
pinVars == <<pinComp, pinEnded>>
aggVars == <<companyVars, pinVars>>
linkVars == <<linkCall>>
putVars == <<putError>>
schedVars == <<visible, pass, statsByCompany, failed>>
poolVars == <<pool>>
manifestVars == <<lastManifestRef>>
popupVars == <<popupInFlight, lastPopupAt, popupReq, dateNow>>
restVars == <<poolVars, manifestVars, popupVars>>
miscVars == <<linkVars, putVars, schedVars, restVars>>
vars == <<ledger, metaRow, metaLock, clock, cache, mut, bump, cacheCall,
          nIssued, nCommitted, nToggles, bumpRets, verRead, dirty, comp, inFlight, ended,
          pinComp, pinEnded, linkCall, putError,
          visible, pass, statsByCompany, failed, pool, lastManifestRef,
          popupInFlight, lastPopupAt, popupReq, dateNow>>

\* ------------------------------------------------------------------ db.ts
\* ProblemProgress; `exists = FALSE` stands for "no row under this link".
NoProgress ==
    [exists |-> FALSE, completed |-> FALSE, minutes |-> Null, notes |-> Null,
     updatedAt |-> 0, difficulty |-> "EASY"]

\* MetaRow for PROGRESS_VERSION_KEY.
NoMeta == [exists |-> FALSE, value |-> 0, updatedAt |-> 0]

\* ----------------------------------------------------------------- meta.ts
\* getProgressVersion(): `row?.value ?? 0`.
getProgressVersion == IF metaRow.exists THEN metaRow.value ELSE 0

\* A request on db.meta runs only while no rw transaction on db.meta is live.
MetaFree == metaLock = 0

\* Mutant: the read-modify-write of bumpProgressVersion outside a transaction.
TxMayBegin_NoTransaction(i) == TRUE

\* db.transaction("rw", db.meta, ...): the body starts once db.meta is free.
TxMayBegin(i) == MetaFree

IdleBump == [pc |-> "idle", now |-> 0, nextValue |-> 0]

\* bumpProgressVersion(), up to the transaction request: `const now = Date.now()`.
bumpProgressVersion_call(i) ==
    /\ bump[i].pc = "idle"
    /\ nIssued.bump < MaxBumps
    /\ bump' = [bump EXCEPT ![i] = [pc |-> "tx", now |-> clock, nextValue |-> 0]]
    /\ nIssued' = [nIssued EXCEPT !.bump = @ + 1]
    /\ UNCHANGED <<miscVars, aggVars, dbVars, clock, mut, cacheCall, nCommitted, nToggles, bumpRets, verRead, dirty>>

\* Inside the transaction: `existing = await db.meta.get(KEY)`, nextValue = value + 1.
bumpProgressVersion_get(i) ==
    /\ bump[i].pc = "tx"
    /\ TxMayBegin(i)
    /\ metaLock' = i
    /\ bump' = [bump EXCEPT ![i].pc = "put", ![i].nextValue = getProgressVersion + 1]
    /\ UNCHANGED <<miscVars, aggVars, ledger, metaRow, cache, clock, mut, cacheCall, histVars>>

\* `await db.meta.put(row); return nextValue`, and the transaction commits.
bumpProgressVersion_put(i) ==
    /\ bump[i].pc = "put"
    /\ metaRow' = [exists |-> TRUE, value |-> bump[i].nextValue, updatedAt |-> bump[i].now]
    /\ metaLock' = 0
    /\ bump' = [bump EXCEPT ![i] = IdleBump]
    /\ bumpRets' = Append(bumpRets, bump[i].nextValue)
    /\ UNCHANGED <<miscVars, aggVars, ledger, cache, clock, mut, cacheCall, nIssued, nCommitted, nToggles, verRead, dirty>>

\* A caller of getProgressVersion() on its own (one db.meta.get).
getProgressVersion_call ==
    /\ MetaFree
    /\ verRead' = [value |-> getProgressVersion, committed |-> Len(bumpRets)]
    /\ verRead' # verRead
    /\ UNCHANGED <<miscVars, aggVars, dbVars, clock, callVars, nIssued, nCommitted, nToggles, bumpRets, dirty>>

\* Date.now() advances.
Tick ==
    /\ clock < MaxClock
    /\ clock' = clock + 1
    /\ UNCHANGED <<miscVars, aggVars, dbVars, callVars, histVars>>

\* -------------------------------------------------------------- progress.ts
\* Mutant: toggleCompleted that rebuilds the row instead of spreading `existing`.
toggleCompleted_row_Rebuild(existing, now, difficulty) ==
    [exists |-> TRUE, completed |-> ~(existing.exists /\ existing.completed),
     minutes |-> Null, notes |-> Null, updatedAt |-> now, difficulty |-> difficulty]

\* The row toggleCompleted puts: a new row, or `existing` with the flag flipped.
toggleCompleted_row(existing, now, difficulty) ==
    IF ~existing.exists
    THEN [exists |-> TRUE, completed |-> TRUE, minutes |-> Null, notes |-> Null,
          updatedAt |-> now, difficulty |-> difficulty]
    ELSE [existing EXCEPT !.completed = ~existing.completed, !.updatedAt = now]

\* The row setMinutes puts.
setMinutes_row(existing, minutes, now, difficulty) ==
    IF ~existing.exists
    THEN [exists |-> TRUE, completed |-> FALSE, minutes |-> minutes, notes |-> Null,
          updatedAt |-> now, difficulty |-> difficulty]
    ELSE [existing EXCEPT !.minutes = minutes, !.updatedAt = now]

\* The row setNotes puts.
setNotes_row(existing, notes, now, difficulty) ==
    IF ~existing.exists
    THEN [exists |-> TRUE, completed |-> FALSE, minutes |-> Null, notes |-> notes,
          updatedAt |-> now, difficulty |-> difficulty]
    ELSE [existing EXCEPT !.notes = notes, !.updatedAt = now]

\* ------------------------------------------------------------ source data
\* The manifest: the CSV files of each company, in manifest order.
CompanyFiles ==
    [c \in Companies \cup EmptyCompanies |->
        CASE c = "A" -> <<"f1", "f2">> [] c = "B" -> <<"f3">> [] OTHER -> <<>>]

Row(l, d) == [link |-> l, difficulty |-> d]

\* The parsed rows (ProblemRow: canonical link, difficulty) of each CSV file.
\* Links repeat across the files of company A with different difficulty tags.
CsvItems ==
    [f \in ListUrls |->
        CASE f = "f1" -> <<Row("p1", "EASY"), Row("p2", "MEDIUM"), Row("p1", "EASY")>>
          [] f = "f2" -> <<Row("p1", "HARD")>>
          [] f = "f3" -> <<Row("p2", "HARD")>>]

\* The unique links of one file / of all files of a company.
FileLinks(f) == {CsvItems[f][n].link : n \in 1..Len(CsvItems[f])}
CompanyLinks(c) == UNION {FileLinks(CompanyFiles[c][n]) : n \in 1..Len(CompanyFiles[c])}

\* ------------------------------------------------------------ cache tables
\* makeKey(): `${manifestAt}::${company}`, `${manifestAt}::${listUrl}`,
\* `${manifestAt}::${company}::${listUrl}`; "-" where a part is not in the key.
makeKey(manifestAt, company, listUrl) ==
    [manifestAt |-> manifestAt, company |-> company, listUrl |-> listUrl]

CacheKeys(t) ==
    CASE t = "companyCache" -> {makeKey(g, c, "-") : g \in ManifestAts, c \in Companies \cup EmptyCompanies}
      [] t = "listStatsCache" -> {makeKey(g, "-", f) : g \in ManifestAts, f \in ListUrls}
      [] t = "pinnedLandingCache" -> {makeKey(g, c, "-") : g \in ManifestAts, c \in Companies}
      [] t = "companyFileQuickCache" ->
           UNION {{makeKey(g, c, CompanyFiles[c][n]) :
                     g \in ManifestAts, n \in 1..Len(CompanyFiles[c])} : c \in Companies}

\* The links of the scope a cache key names.
ScopeLinks(t, k) ==
    IF t \in {"companyCache", "pinnedLandingCache"} THEN CompanyLinks(k.company)
    ELSE FileLinks(k.listUrl)

NoData == [solved |-> 0, total |-> 0]
NoCacheRow == [exists |-> FALSE, progressVersion |-> 0, computedAt |-> 0, data |-> NoData]
NullResult == [hit |-> FALSE, stats |-> NoData]

ST(s, n) == [solved |-> s, total |-> n]

\* ---- companyCache.ts
\* Mutant: readCompanyCache without the progressVersion check.
readCompanyCache_validate_NoVersionCheck(row, currentVersion) ==
    [hit |-> TRUE,
     stats |-> [easy |-> ST(row.data.solvedEasy, row.data.totalEasy),
                medium |-> ST(row.data.solvedMedium, row.data.totalMedium),
                hard |-> ST(row.data.solvedHard, row.data.totalHard),
                total |-> ST(row.data.solvedAll, row.data.totalAll)]]

\* readCompanyCache after the row was found: the version check and the result.
readCompanyCache_validate(row, currentVersion) ==
    IF row.progressVersion # currentVersion THEN NullResult
    ELSE [hit |-> TRUE,
          stats |-> [easy |-> ST(row.data.solvedEasy, row.data.totalEasy),
                     medium |-> ST(row.data.solvedMedium, row.data.totalMedium),
                     hard |-> ST(row.data.solvedHard, row.data.totalHard),
                     total |-> ST(row.data.solvedAll, row.data.totalAll)]]

\* writeCompanyCache: the CompanyCacheRow built from the stats.
writeCompanyCache_row(stats, progressVersion, now) ==
    [exists |-> TRUE, progressVersion |-> progressVersion, computedAt |-> now,
     data |-> [totalEasy |-> stats.easy.total, totalMedium |-> stats.medium.total,
               totalHard |-> stats.hard.total, totalAll |-> stats.total.total,
               solvedEasy |-> stats.easy.solved, solvedMedium |-> stats.medium.solved,
               solvedHard |-> stats.hard.solved, solvedAll |-> stats.total.solved]]

\* ---- listStatsCache.ts
readListStatsCache_validate(row, currentVersion) ==
    IF row.progressVersion # currentVersion THEN NullResult
    ELSE [hit |-> TRUE, stats |-> ST(row.data.solved, row.data.total)]

writeListStatsCache_row(stats, progressVersion, now) ==
    [exists |-> TRUE, progressVersion |-> progressVersion, computedAt |-> now,
     data |-> [solved |-> stats.solved, total |-> stats.total]]

\* ---- companyFileQuickCache.ts
readCompanyFileQuickCache_validate(row, currentVersion) ==
    IF row.progressVersion # currentVersion THEN NullResult
    ELSE [hit |-> TRUE, stats |-> ST(row.data.solved, row.data.total)]

writeCompanyFileQuickCache_row(stats, progressVersion, now) ==
    [exists |-> TRUE, progressVersion |-> progressVersion, computedAt |-> now,
     data |-> [solved |-> stats.solved, total |-> stats.total]]

\* ---- pinnedLandingCache.ts
\* A Map is its keys in insertion order and its values.
EmptyMap == [order |-> <<>>, val |-> <<>>]
MapHas(m, key) == \E n \in 1..Len(m.order) : m.order[n] = key
MapIndex(m, key) == CHOOSE n \in 1..Len(m.order) : m.order[n] = key
MapGet(m, key) == m.val[MapIndex(m, key)]
MapSet(m, key, v) ==
    IF MapHas(m, key) THEN [m EXCEPT !.val[MapIndex(m, key)] = v]
    ELSE [order |-> Append(m.order, key), val |-> Append(m.val, v)]

\* serializePerList: JSON.stringify([...perList.entries()]), an array of pairs.
serializePerList(perList) ==
    [n \in 1..Len(perList.order) |-> <<perList.order[n], perList.val[n]>>]

RECURSIVE MapFromEntries(_, _)
MapFromEntries(arr, m) ==
    IF arr = <<>> THEN m
    ELSE MapFromEntries(Tail(arr), MapSet(m, Head(arr)[1], Head(arr)[2]))

\* deserializePerList: new Map(JSON.parse(perListJson)).
deserializePerList(perListJson) == MapFromEntries(perListJson, EmptyMap)

readPinnedLandingCache_validate(row, currentVersion) ==
    IF row.progressVersion # currentVersion THEN NullResult
    ELSE [hit |-> TRUE,
          stats |-> [overall |-> ST(row.data.overallSolved, row.data.overallTotal),
                     perList |-> deserializePerList(row.data.perListJson)]]

writePinnedLandingCache_row(stats, progressVersion, now) ==
    [exists |-> TRUE, progressVersion |-> progressVersion, computedAt |-> now,
     data |-> [overallSolved |-> stats.overall.solved, overallTotal |-> stats.overall.total,
               perListJson |-> serializePerList(stats.perList)]]

\* The four tables behind one name.
ReadValidate(t, row, currentVersion) ==
    CASE t = "companyCache" -> readCompanyCache_validate(row, currentVersion)
      [] t = "listStatsCache" -> readListStatsCache_validate(row, currentVersion)
      [] t = "pinnedLandingCache" -> readPinnedLandingCache_validate(row, currentVersion)
      [] t = "companyFileQuickCache" -> readCompanyFileQuickCache_validate(row, currentVersion)

WriteRow(t, stats, progressVersion, now) ==
    CASE t = "companyCache" -> writeCompanyCache_row(stats, progressVersion, now)
      [] t = "listStatsCache" -> writeListStatsCache_row(stats, progressVersion, now)
      [] t = "pinnedLandingCache" -> writePinnedLandingCache_row(stats, progressVersion, now)
      [] t = "companyFileQuickCache" -> writeCompanyFileQuickCache_row(stats, progressVersion, now)

\* The cache entries that exist, as <<table, key>>.
CacheEntries == {tk \in UNION {{<<t, k>> : k \in CacheKeys(t)} : t \in Tables} : cache[tk[1]][tk[2]].exists}

\* ---- progress.ts, the mutation calls
IdleMut ==
    [pc |-> "idle", op |-> "none", link |-> "p1", val |-> Null, difficulty |-> "EASY",
     existing |-> NoProgress, now |-> 0]

\* The first await of a mutation: `existing = await db.progress.get(link)`,
\* then `now = Date.now()`; the put is issued and pending.
MutationGet(i, op, link, val, d) ==
    /\ mut[i].pc = "idle"
    /\ nIssued.mut < MaxMutations
    /\ mut' = [mut EXCEPT ![i] =
                 [pc |-> "put", op |-> op, link |-> link, val |-> val, difficulty |-> d,
                  existing |-> ledger[link], now |-> clock]]
    /\ nIssued' = [nIssued EXCEPT !.mut = @ + 1]
    /\ UNCHANGED <<miscVars, aggVars, dbVars, clock, bump, cacheCall, nCommitted, nToggles, bumpRets, verRead, dirty>>

\* The row a pending mutation call puts.
MutationRow(m) ==
    CASE m.op = "toggle" -> toggleCompleted_row(m.existing, m.now, m.difficulty)
      [] m.op = "minutes" -> setMinutes_row(m.existing, m.val, m.now, m.difficulty)
      [] m.op = "notes" -> setNotes_row(m.existing, m.val, m.now, m.difficulty)

\* The pending `await db.progress.put(...)` is applied and the call returns.
\* No progress-version bump follows: progress.ts never calls bumpProgressVersion.
MutationPut(i, op) ==
    /\ mut[i].pc = "put"
    /\ mut[i].op = op
    /\ ledger' = [ledger EXCEPT ![mut[i].link] = MutationRow(mut[i])]
    /\ mut' = [mut EXCEPT ![i] = IdleMut]
    /\ nCommitted' = nCommitted + 1
    /\ nToggles' = IF op = "toggle" THEN [nToggles EXCEPT ![mut[i].link] = @ + 1] ELSE nToggles
    /\ dirty' = dirty \cup {tk \in CacheEntries : mut[i].link \in ScopeLinks(tk[1], tk[2])}
    /\ UNCHANGED <<miscVars, aggVars, metaRow, metaLock, cache, clock, bump, cacheCall, nIssued, bumpRets, verRead>>

toggleCompleted_put(i) == MutationPut(i, "toggle")
setMinutes_put(i) == MutationPut(i, "minutes")
setNotes_put(i) == MutationPut(i, "notes")

\* What the caller of a mutation gets when `await db.progress.put(...)`
\* rejects: no try / catch surrounds the await, so the promise of the call
\* rejects with the error of the put.
MutationSettled_Swallowed(m) == [outcome |-> "resolved", op |-> m.op, link |-> m.link]

MutationSettled(m) == [outcome |-> "rejected", op |-> m.op, link |-> m.link]

NoPutError == [outcome |-> "none", op |-> "none", link |-> "p1"]

\* The pending `await db.progress.put(...)` fails (quota, I/O): IndexedDB
\* stores nothing of a failed put, and the call rejects.
MutationPutFails(i, op) ==
    /\ mut[i].pc = "put"
    /\ mut[i].op = op
    /\ mut' = [mut EXCEPT ![i] = IdleMut]
    /\ putError' = MutationSettled(mut[i])
    /\ UNCHANGED <<restVars, linkVars, schedVars, aggVars, dbVars, clock, bump, cacheCall, histVars>>

toggleCompleted_putFails(i) == MutationPutFails(i, "toggle")
setMinutes_putFails(i) == MutationPutFails(i, "minutes")
setNotes_putFails(i) == MutationPutFails(i, "notes")

\* The pages pass the difficulty of the CSV row the user acts on.
RowDifficulties(link) ==
    {d \in Difficulty : \E f \in ListUrls : \E n \in 1..Len(CsvItems[f]) :
        CsvItems[f][n] = Row(link, d)}

toggleCompleted_get(i) ==
    \E link \in Links : \E d \in RowDifficulties(link) : MutationGet(i, "toggle", link, Null, d)

setMinutes_get(i) ==
    \E link \in Links, v \in MinutesArgs : \E d \in RowDifficulties(link) :
        MutationGet(i, "minutes", link, v, d)

setNotes_get(i) ==
    \E link \in Links, v \in NotesArgs : \E d \in RowDifficulties(link) :
        MutationGet(i, "notes", link, v, d)


\* ---------------------------------------------- callers of the cache modules
CompanyStatsOf(s, n) == [easy |-> ST(s, n), medium |-> ST(0, 0), hard |-> ST(0, 0), total |-> ST(s, n)]

\* The aggregates a stand-alone caller passes to write*Cache.
StatsArgs(t) ==
    CASE t = "companyCache" -> {CompanyStatsOf(0, 1), CompanyStatsOf(1, 1)}
      [] t = "pinnedLandingCache" ->
           {[overall |-> ST(s, 1), perList |-> MapSet(EmptyMap, "f1", ST(s, 1))] : s \in {0, 1}}
      [] OTHER -> {ST(0, 1), ST(1, 1)}

\* The scope the stand-alone callers work on: company A and its first list,
\* under manifest g1.
ApiKeys(t) ==
    {k \in CacheKeys(t) : k.manifestAt = "g1" /\ k.company \in {"A", "-"} /\ k.listUrl \in {"f1", "-"}}

\* The four tables share no state: the stand-alone callers of one behaviour
\* all work on the table the first of them chose.
SameTable(t) == \A j \in CacheIds : cacheCall[j].pc = "idle" \/ cacheCall[j].table = t

IdleCacheCall ==
    [pc |-> "idle", op |-> "none", table |-> "companyCache", key |-> makeKey("g1", "A", "-"),
     row |-> NoCacheRow, result |-> NullResult]

\* read*Cache: `row = await db.<table>.get(key)`.
CacheReadGet(i, t, k) ==
    /\ cacheCall[i].pc \in {"idle", "returned"}
    /\ SameTable(t)
    /\ nIssued.cache < MaxCacheOps
    /\ cacheCall' = [cacheCall EXCEPT ![i] =
                       [pc |-> "got", op |-> "read", table |-> t, key |-> k,
                        row |-> cache[t][k], result |-> NullResult]]
    /\ nIssued' = [nIssued EXCEPT !.cache = @ + 1]
    /\ UNCHANGED <<miscVars, aggVars, dbVars, clock, mut, bump, nCommitted, nToggles, bumpRets, verRead, dirty>>

\* read*Cache: `if (!row) return null`, else `await getProgressVersion()` and the check.
CacheReadReturn(i, t) ==
    /\ cacheCall[i].pc = "got"
    /\ cacheCall[i].table = t
    /\ \/ /\ ~cacheCall[i].row.exists
          /\ cacheCall' = [cacheCall EXCEPT ![i].pc = "returned", ![i].result = NullResult]
       \/ /\ cacheCall[i].row.exists
          /\ MetaFree
          /\ cacheCall' = [cacheCall EXCEPT ![i].pc = "returned",
                             ![i].result = ReadValidate(t, cacheCall[i].row, getProgressVersion)]
    /\ UNCHANGED <<miscVars, aggVars, dbVars, clock, mut, bump, histVars>>

\* write*Cache: `progressVersion = await getProgressVersion()`, the row is built.
CacheWriteVersion(i, t, k, stats) ==
    /\ cacheCall[i].pc \in {"idle", "returned"}
    /\ SameTable(t)
    /\ nIssued.cache < MaxCacheOps
    /\ MetaFree
    /\ cacheCall' = [cacheCall EXCEPT ![i] =
                       [pc |-> "put", op |-> "write", table |-> t, key |-> k,
                        row |-> WriteRow(t, stats, getProgressVersion, clock),
                        result |-> NullResult]]
    /\ nIssued' = [nIssued EXCEPT !.cache = @ + 1]
    /\ UNCHANGED <<miscVars, aggVars, dbVars, clock, mut, bump, nCommitted, nToggles, bumpRets, verRead, dirty>>

\* write*Cache: `await db.<table>.put(row)`.
CacheWritePut(i, t) ==
    /\ cacheCall[i].pc = "put"
    /\ cacheCall[i].table = t
    /\ cache' = [cache EXCEPT ![t][cacheCall[i].key] = cacheCall[i].row]
    /\ cacheCall' = [cacheCall EXCEPT ![i].pc = "returned"]
    /\ dirty' = dirty \ {<<t, cacheCall[i].key>>}
    /\ UNCHANGED <<miscVars, aggVars, ledger, metaRow, metaLock, clock, mut, bump,
                   nIssued, nCommitted, nToggles, bumpRets, verRead>>

readCompanyCache_get(i) == \E k \in ApiKeys("companyCache") : CacheReadGet(i, "companyCache", k)
readCompanyCache_return(i) == CacheReadReturn(i, "companyCache")
writeCompanyCache_version(i) ==
    \E k \in ApiKeys("companyCache"), st \in StatsArgs("companyCache") :
        CacheWriteVersion(i, "companyCache", k, st)
writeCompanyCache_put(i) == CacheWritePut(i, "companyCache")

readListStatsCache_get(i) == \E k \in ApiKeys("listStatsCache") : CacheReadGet(i, "listStatsCache", k)
readListStatsCache_return(i) == CacheReadReturn(i, "listStatsCache")
writeListStatsCache_version(i) ==
    \E k \in ApiKeys("listStatsCache"), st \in StatsArgs("listStatsCache") :
        CacheWriteVersion(i, "listStatsCache", k, st)
writeListStatsCache_put(i) == CacheWritePut(i, "listStatsCache")

readPinnedLandingCache_get(i) ==
    \E k \in ApiKeys("pinnedLandingCache") : CacheReadGet(i, "pinnedLandingCache", k)
readPinnedLandingCache_return(i) == CacheReadReturn(i, "pinnedLandingCache")
writePinnedLandingCache_version(i) ==
    \E k \in ApiKeys("pinnedLandingCache"), st \in StatsArgs("pinnedLandingCache") :
        CacheWriteVersion(i, "pinnedLandingCache", k, st)
writePinnedLandingCache_put(i) == CacheWritePut(i, "pinnedLandingCache")

readCompanyFileQuickCache_get(i) ==
    \E k \in ApiKeys("companyFileQuickCache") : CacheReadGet(i, "companyFileQuickCache", k)
readCompanyFileQuickCache_return(i) == CacheReadReturn(i, "companyFileQuickCache")
writeCompanyFileQuickCache_version(i) ==
    \E k \in ApiKeys("companyFileQuickCache"), st \in StatsArgs("companyFileQuickCache") :
        CacheWriteVersion(i, "companyFileQuickCache", k, st)
writeCompanyFileQuickCache_put(i) == CacheWritePut(i, "companyFileQuickCache")

\* ------------------------------------------------------- utils/functions.ts
SeqToSet(s) == {s[n] : n \in 1..Len(s)}

\* The items of a withConcurrency call: the queue `q`, the items whose fn is
\* suspended in loadCsv, and the items whose fn returned at `signal.aborted`.
NoWork == [q |-> <<>>, fetching |-> {}, skipped |-> {}]

\* One worker of withConcurrency running until it suspends or finds the queue
\* empty, for `fn = async (f) => { if (signal.aborted) return; await loadCsv(f.url, signal); ... }`:
\* with the signal aborted every call returns at once and the worker drains the
\* queue; otherwise the worker shifts one item and suspends in its fetch.
withConcurrency_worker(w, aborted) ==
    IF w.q = <<>> THEN w
    ELSE IF aborted
         THEN [q |-> <<>>, fetching |-> w.fetching, skipped |-> w.skipped \cup SeqToSet(w.q)]
         ELSE [q |-> Tail(w.q), fetching |-> w.fetching \cup {Head(w.q)}, skipped |-> w.skipped]

\* `Array.from({ length: Math.max(1, limit) }, async () => {...})`: the workers
\* start one after the other, each running up to its first suspension.
RECURSIVE withConcurrency_workers(_, _, _)
withConcurrency_workers(w, n, aborted) ==
    IF n = 0 THEN w
    ELSE withConcurrency_workers(withConcurrency_worker(w, aborted), n - 1, aborted)

withConcurrency_start(items, limit, aborted) ==
    withConcurrency_workers([q |-> items, fetching |-> {}, skipped |-> {}],
                            IF limit > 1 THEN limit ELSE 1, aborted)

\* ---------------------------------------------------- stats/companyStats.ts
\* The concurrency limit getCompanyStats passes to withConcurrency.
FetchLimit == 3

emptyCompanyStats == [easy |-> ST(0, 0), medium |-> ST(0, 0), hard |-> ST(0, 0), total |-> ST(0, 0)]

\* inc(): `if (!map.has(link)) map.set(link, d)`.
inc(map, link, d) == IF MapHas(map, link) THEN map ELSE MapSet(map, link, d)

\* `for (const row of res.items) inc(linkToDiff, row.link, row.difficulty)`.
RECURSIVE getCompanyStats_merge(_, _)
getCompanyStats_merge(linkToDiff, items) ==
    IF items = <<>> THEN linkToDiff
    ELSE getCompanyStats_merge(inc(linkToDiff, Head(items).link, Head(items).difficulty),
                               Tail(items))

\* `for (const d of linkToDiff.values()) totals[d] += 1`.
getCompanyStats_totals(linkToDiff, d) ==
    Cardinality({n \in 1..Len(linkToDiff.val) : linkToDiff.val[n] = d})

\* `db.progress.where("link").anyOf(links).filter((r) => r.completed).toArray()`:
\* one read of the progress table; the rows carry their link and their own difficulty.
getCompanyStats_solvedRows(links) ==
    {[link |-> l, difficulty |-> ledger[l].difficulty] :
        l \in {k \in SeqToSet(links) : ledger[k].exists /\ ledger[k].completed}}

\* Mutant: the bucket of a solved row taken from the progress record.
getCompanyStats_bucket_FromRecord(linkToDiff, r) == r.difficulty

\* `const d = linkToDiff.get(r.link)`: the bucket of a solved row.
getCompanyStats_bucket(linkToDiff, r) == MapGet(linkToDiff, r.link)

\* Mutant: the overall solved count taken from the whole progress table
\* instead of the rows of the company's links.
getCompanyStats_computed_AllCompleted(linkToDiff, solvedRows) ==
    LET solvedByDiff(d) ==
            Cardinality({r \in solvedRows : getCompanyStats_bucket(linkToDiff, r) = d})
    IN  [easy |-> ST(solvedByDiff("EASY"), getCompanyStats_totals(linkToDiff, "EASY")),
         medium |-> ST(solvedByDiff("MEDIUM"), getCompanyStats_totals(linkToDiff, "MEDIUM")),
         hard |-> ST(solvedByDiff("HARD"), getCompanyStats_totals(linkToDiff, "HARD")),
         total |-> ST(Cardinality({l \in Links : ledger[l].exists /\ ledger[l].completed}),
                      Len(linkToDiff.order))]

\* `computed`: totals from linkToDiff, solved counts from the solved rows.
getCompanyStats_computed(linkToDiff, solvedRows) ==
    LET solvedByDiff(d) ==
            Cardinality({r \in solvedRows : getCompanyStats_bucket(linkToDiff, r) = d})
    IN  [easy |-> ST(solvedByDiff("EASY"), getCompanyStats_totals(linkToDiff, "EASY")),
         medium |-> ST(solvedByDiff("MEDIUM"), getCompanyStats_totals(linkToDiff, "MEDIUM")),
         hard |-> ST(solvedByDiff("HARD"), getCompanyStats_totals(linkToDiff, "HARD")),
         total |-> ST(Cardinality(solvedRows), Len(linkToDiff.order))]

\* A getCompanyStats request in flight; `aborted` is the state of the
\* AbortSignal its caller passed.
IdleComp ==
    [pc |-> "idle", caller |-> "none", manifestAt |-> "g1", company |-> "A",
     aborted |-> FALSE, row |-> NoCacheRow, work |-> NoWork, linkToDiff |-> EmptyMap,
     stats |-> emptyCompanyStats]

Live(i) == comp[i].pc # "idle"

\* What is kept of a request that ended: its caller and scope, how it ended,
\* the value it returned, and the files it skipped at `signal.aborted`.
Ended(c, outcome, stats, skipped) ==
    [caller |-> c.caller, manifestAt |-> c.manifestAt, company |-> c.company,
     outcome |-> outcome, stats |-> stats, skipped |-> skipped]

NoEnded == Ended(IdleComp, "none", emptyCompanyStats, {})

\* The manifest the pages have loaded: its generatedAt.
LoadedManifestAts == {"g1"}
CompKey(i) == <<comp[i].manifestAt, comp[i].company>>

\* What happens when the request of slot i ends, in the same turn of the event
\* loop: the scheduler's `finally { inFlightRef.current.delete(key) }`.
Released(i) == IF comp[i].caller = "lazy" THEN inFlight \ {CompKey(i)} ELSE inFlight

\* One effect run issues a scope at most once (the scheduler: `[...new Set(visibleCompanyNames)]`,
\* StatsPage: the companies of the manifest), all under one manifestAt, and the
\* cleanup of the previous run has aborted every request issued before it.
MayRequest(caller, g, c) ==
    \A j \in CompIds :
        \/ ~Live(j)
        \/ comp[j].aborted
        \/ (comp[j].caller = caller /\ comp[j].manifestAt = g /\ comp[j].company # c)

\* getCompanyStats is called: `cached = await readCompanyCache(manifestAt, company.name)`,
\* whose first await is `db.companyCache.get(key)`.
getCompanyStats_call(i, caller, g, c) ==
    /\ comp[i].pc = "idle"
    /\ \A j \in CompIds : j < i => comp[j].pc # "idle"
    /\ nIssued.agg < MaxRequests
    /\ MayRequest(caller, g, c)
    /\ comp' = [comp EXCEPT ![i] =
                  [IdleComp EXCEPT !.pc = "cacheGot", !.caller = caller, !.manifestAt = g,
                                   !.company = c,
                                   !.row = cache["companyCache"][makeKey(g, c, "-")]]]
    /\ nIssued' = [nIssued EXCEPT !.agg = @ + 1]
    /\ UNCHANGED <<miscVars, pinVars, dbVars, clock, callVars, nCommitted, nToggles, bumpRets, verRead, dirty>>

\* useCompanyStatsLazy, one task of a pass: `if (inFlightRef.current.has(key)) return`,
\* else the key is added and getCompanyStats is called with the pass's signal.
useCompanyStatsLazy_task(i) ==
    \E g \in LoadedManifestAts, c \in Companies :
        /\ <<g, c>> \notin inFlight
        /\ getCompanyStats_call(i, "lazy", g, c)
        /\ inFlight' = inFlight \cup {<<g, c>>}
        /\ UNCHANGED ended

\* The same task for a company that has no problem rows.
useCompanyStatsLazy_emptyTask(i) ==
    \E g \in LoadedManifestAts, c \in EmptyCompanies :
        /\ <<g, c>> \notin inFlight
        /\ getCompanyStats_call(i, "lazy", g, c)
        /\ inFlight' = inFlight \cup {<<g, c>>}
        /\ UNCHANGED ended

\* StatsPage, one task of its effect: getCompanyStats is called with the
\* effect's signal; there is no in-flight check.
StatsPage_task(i) ==
    \E g \in LoadedManifestAts, c \in Companies :
        /\ getCompanyStats_call(i, "stats", g, c)
        /\ UNCHANGED <<miscVars, pinVars, inFlight, ended>>

\* The cleanup of an effect, `ac.abort()`: the signal of every request the
\* effect issued is aborted.
AbortController_abort ==
    /\ \E i \in CompIds : Live(i) /\ ~comp[i].aborted
    /\ comp' = [i \in CompIds |-> IF Live(i) THEN [comp[i] EXCEPT !.aborted = TRUE] ELSE comp[i]]
    /\ UNCHANGED <<miscVars, pinVars, dbVars, clock, callVars, histVars, inFlight, ended>>

\* The request after a step of withConcurrency: suspended in its fetches, or,
\* when the last worker is done, suspended in the progress query; with
\* `links.length === 0` it returns emptyCompanyStats() instead (pc "empty").
getCompanyStats_after(i, w, linkToDiff) ==
    [comp[i] EXCEPT !.work = w, !.linkToDiff = linkToDiff,
                    !.pc = IF w.fetching # {} THEN "fetch"
                           ELSE IF Len(linkToDiff.order) = 0 THEN "empty" ELSE "query"]

\* The step of slot i that leads to record c: the request goes on as c, or it
\* ends ("hit", "empty", "computed", "thrown"), its slot is free again and the
\* scheduler's `finally` has released its key.
Continue(i, c) ==
    /\ comp' = [comp EXCEPT ![i] = IF c.pc \in {"hit", "empty", "computed", "thrown"}
                                   THEN IdleComp ELSE c]
    /\ ended' = IF c.pc \in {"hit", "empty", "computed", "thrown"}
                THEN Ended(c, c.pc, c.stats, c.work.skipped) ELSE ended
    /\ inFlight' = IF c.pc \in {"hit", "empty", "computed", "thrown"} THEN Released(i) ELSE inFlight

\* readCompanyCache returns: a hit is returned to the caller; on a miss
\* withConcurrency(company.files, 3, ...) starts its workers.
getCompanyStats_cached(i) ==
    /\ comp[i].pc = "cacheGot"
    /\ comp[i].row.exists => MetaFree
    /\ LET res == IF comp[i].row.exists
                  THEN readCompanyCache_validate(comp[i].row, getProgressVersion)
                  ELSE NullResult
           w == withConcurrency_start(CompanyFiles[comp[i].company], FetchLimit, comp[i].aborted)
       IN  Continue(i, IF res.hit
                       THEN [comp[i] EXCEPT !.pc = "hit", !.stats = res.stats]
                       ELSE getCompanyStats_after(i, w, EmptyMap))
    /\ UNCHANGED <<miscVars, pinVars, dbVars, clock, callVars, histVars>>

\* loadCsv(f.url, signal) resolves: the rows are merged and the worker goes on.
\* A fetch whose signal is aborted does not resolve.
loadCsv_resolve(i) ==
    \E f \in comp[i].work.fetching :
        /\ comp[i].pc = "fetch"
        /\ ~comp[i].aborted
        /\ LET w == withConcurrency_worker([comp[i].work EXCEPT !.fetching = @ \ {f}],
                                           comp[i].aborted)
           IN  Continue(i, getCompanyStats_after(i, w,
                               getCompanyStats_merge(comp[i].linkToDiff, CsvItems[f])))
        /\ UNCHANGED <<miscVars, pinVars, dbVars, clock, callVars, histVars>>

\* loadCsv rejects (the signal was aborted, or the response was not ok):
\* Promise.all rejects and getCompanyStats throws to its caller.
loadCsv_reject(i) ==
    \E f \in comp[i].work.fetching :
        /\ comp[i].pc = "fetch"
        /\ Continue(i, [comp[i] EXCEPT !.pc = "thrown", !.stats = emptyCompanyStats])
        /\ UNCHANGED <<miscVars, pinVars, dbVars, clock, callVars, histVars>>

\* The progress query returns: `computed` is built and writeCompanyCache is
\* called, whose first await is getProgressVersion().
getCompanyStats_query(i) ==
    /\ comp[i].pc = "query"
    /\ comp' = [comp EXCEPT ![i].pc = "writeVersion",
                            ![i].stats = getCompanyStats_computed(comp[i].linkToDiff,
                                            getCompanyStats_solvedRows(comp[i].linkToDiff.order))]
    /\ UNCHANGED <<miscVars, pinVars, dbVars, clock, callVars, histVars, inFlight, ended>>

\* writeCompanyCache: the version is read and the row is built.
getCompanyStats_writeVersion(i) ==
    /\ comp[i].pc = "writeVersion"
    /\ MetaFree
    /\ comp' = [comp EXCEPT ![i].pc = "writePut",
                            ![i].row = writeCompanyCache_row(comp[i].stats, getProgressVersion, clock)]
    /\ UNCHANGED <<miscVars, pinVars, dbVars, clock, callVars, histVars, inFlight, ended>>

\* writeCompanyCache: `await db.companyCache.put(row)`; getCompanyStats returns.
getCompanyStats_writePut(i) ==
    /\ comp[i].pc = "writePut"
    /\ cache' = [cache EXCEPT !["companyCache"][makeKey(comp[i].manifestAt, comp[i].company, "-")] =
                                  comp[i].row]
    /\ Continue(i, [comp[i] EXCEPT !.pc = "computed"])
    /\ dirty' = dirty \ {<<"companyCache", makeKey(comp[i].manifestAt, comp[i].company, "-")>>}
    /\ UNCHANGED <<miscVars, pinVars, ledger, metaRow, metaLock, clock, callVars,
                   nIssued, nCommitted, nToggles, bumpRets, verRead>>

\* writeCompanyCache: `await db.companyCache.put(row)` rejects (quota, I/O).
\* Neither writeCompanyCache nor getCompanyStats catches it: getCompanyStats
\* throws and `computed` is lost.
getCompanyStats_writeFails(i) ==
    /\ comp[i].pc = "writePut"
    /\ Continue(i, [comp[i] EXCEPT !.pc = "thrown", !.stats = emptyCompanyStats])
    /\ UNCHANGED <<miscVars, pinVars, dbVars, clock, callVars, histVars>>

\* ------------------------------------------- stats/landingStats.ts (part_006)
emptySolvedTotal == ST(0, 0)

\* `db.progress.where("link").anyOf(links).filter((r) => r.completed).toArray()).length`.
getPinnedCompanyStats_solved(links) ==
    Cardinality({l \in links : ledger[l].exists /\ ledger[l].completed})

\* A getPinnedCompanyStats request in flight: `work` as for getCompanyStats,
\* `querying` the files whose worker awaits its progress query.
IdlePinned ==
    [pc |-> "idle", manifestAt |-> "g1", company |-> "A", aborted |-> FALSE,
     row |-> NoCacheRow, work |-> NoWork, querying |-> {}, perList |-> EmptyMap,
     unionLinks |-> {}, overall |-> emptySolvedTotal]

PinLive(i) == pinComp[i].pc # "idle"

\* What is kept of a getPinnedCompanyStats request that ended.
PinEnded(c, outcome, skipped) ==
    [manifestAt |-> c.manifestAt, company |-> c.company, outcome |-> outcome,
     stats |-> [overall |-> c.overall, perList |-> c.perList], skipped |-> skipped]

NoPinEnded == PinEnded(IdlePinned, "none", {})

\* The step of slot i that leads to record c: the request goes on as c, or it
\* ends ("hit", "computed", "thrown") and its slot is free again.
PinContinue(i, c) ==
    /\ pinComp' = [pinComp EXCEPT ![i] = IF c.pc \in {"hit", "computed", "thrown"}
                                         THEN IdlePinned ELSE c]
    /\ pinEnded' = IF c.pc \in {"hit", "computed", "thrown"}
                   THEN PinEnded(c, c.pc, c.work.skipped) ELSE pinEnded

\* LandingPage, one turn of `for (const c of pinnedCompaniesFromManifest)`:
\* getPinnedCompanyStats is called with the effect's signal, whose first await is
\* `db.pinnedLandingCache.get(key)`. The loop awaits each call, so every
\* request issued before is over or belongs to an effect that was cleaned up.
LandingPage_task(i) ==
    \E g \in LoadedManifestAts, c \in Companies :
        /\ pinComp[i].pc = "idle"
        /\ \A j \in PinIds : j < i => pinComp[j].pc # "idle"
        /\ \A j \in PinIds : PinLive(j) => pinComp[j].aborted
        /\ nIssued.pin < MaxPinnedRequests
        /\ pinComp' = [pinComp EXCEPT ![i] =
                         [IdlePinned EXCEPT !.pc = "cacheGot", !.manifestAt = g, !.company = c,
                                            !.row = cache["pinnedLandingCache"][makeKey(g, c, "-")]]]
        /\ nIssued' = [nIssued EXCEPT !.pin = @ + 1]
        /\ UNCHANGED <<miscVars, companyVars, pinEnded, dbVars, clock, callVars,
                       nCommitted, nToggles, bumpRets, verRead, dirty>>

\* The cleanup of the LandingPage effect, `ac.abort()`.
LandingPage_cleanup ==
    /\ \E i \in PinIds : PinLive(i) /\ ~pinComp[i].aborted
    /\ pinComp' = [i \in PinIds |->
                     IF PinLive(i) THEN [pinComp[i] EXCEPT !.aborted = TRUE] ELSE pinComp[i]]
    /\ UNCHANGED <<miscVars, companyVars, pinEnded, dbVars, clock, callVars, histVars>>

\* The request after a step of withConcurrency: suspended in its workers, or,
\* when the last worker is done, suspended in the progress query for the
\* union, or, with an empty union, in writePinnedLandingCache.
getPinnedCompanyStats_after(i, w, querying, perList, unionLinks) ==
    [pinComp[i] EXCEPT !.work = w, !.querying = querying, !.perList = perList,
                       !.unionLinks = unionLinks,
                       !.overall = emptySolvedTotal,
                       !.pc = IF w.fetching # {} \/ querying # {} THEN "lists"
                              ELSE IF unionLinks = {} THEN "writeVersion" ELSE "overallQuery"]

\* readPinnedLandingCache returns: a hit is returned to the caller; on a miss
\* withConcurrency(company.files, 3, ...) starts its workers.
getPinnedCompanyStats_cached(i) ==
    /\ pinComp[i].pc = "cacheGot"
    /\ pinComp[i].row.exists => MetaFree
    /\ LET res == IF pinComp[i].row.exists
                  THEN readPinnedLandingCache_validate(pinComp[i].row, getProgressVersion)
                  ELSE NullResult
           w == withConcurrency_start(CompanyFiles[pinComp[i].company], FetchLimit,
                                      pinComp[i].aborted)
       IN  PinContinue(i, IF res.hit
                          THEN [pinComp[i] EXCEPT !.pc = "hit", !.overall = res.stats.overall,
                                                  !.perList = res.stats.perList]
                          ELSE getPinnedCompanyStats_after(i, w, {}, EmptyMap, {}))
    /\ UNCHANGED <<miscVars, companyVars, dbVars, clock, callVars, histVars>>

\* loadCsv(f.url, signal) resolves in a worker: the links join listLinks and
\* unionLinks; an empty list is recorded at once and the worker goes on, else
\* the worker awaits the progress query for the list.
getPinnedCompanyStats_loadCsv(i) ==
    \E f \in pinComp[i].work.fetching :
        /\ pinComp[i].pc = "lists"
        /\ ~pinComp[i].aborted
        /\ LET c == pinComp[i]
               w == [c.work EXCEPT !.fetching = @ \ {f}]
           IN  PinContinue(i,
                   IF FileLinks(f) = {}
                   THEN getPinnedCompanyStats_after(i, withConcurrency_worker(w, c.aborted),
                            c.querying, MapSet(c.perList, f, emptySolvedTotal), c.unionLinks)
                   ELSE getPinnedCompanyStats_after(i, w, c.querying \cup {f}, c.perList,
                            c.unionLinks \cup FileLinks(f)))
        /\ UNCHANGED <<miscVars, companyVars, dbVars, clock, callVars, histVars>>

\* loadCsv rejects (the signal was aborted, or the response was not ok):
\* Promise.all rejects and getPinnedCompanyStats throws to its caller.
getPinnedCompanyStats_loadCsvReject(i) ==
    \E f \in pinComp[i].work.fetching :
        /\ pinComp[i].pc = "lists"
        /\ PinContinue(i, [pinComp[i] EXCEPT !.pc = "thrown", !.overall = emptySolvedTotal,
                                             !.perList = EmptyMap])
        /\ UNCHANGED <<miscVars, companyVars, dbVars, clock, callVars, histVars>>

\* The progress query of a worker returns: perList.set(f.url, {solved, total}),
\* and the worker goes on to the next file, which it skips when the signal is aborted.
getPinnedCompanyStats_listQuery(i) ==
    \E f \in pinComp[i].querying :
        /\ pinComp[i].pc = "lists"
        /\ LET c == pinComp[i]
           IN  PinContinue(i,
                   getPinnedCompanyStats_after(i, withConcurrency_worker(c.work, c.aborted),
                       c.querying \ {f},
                       MapSet(c.perList, f, ST(getPinnedCompanyStats_solved(FileLinks(f)),
                                               Cardinality(FileLinks(f)))),
                       c.unionLinks))
        /\ UNCHANGED <<miscVars, companyVars, dbVars, clock, callVars, histVars>>

\* The progress query for the union returns: `overall` is built and
\* writePinnedLandingCache is called, whose first await is getProgressVersion().
getPinnedCompanyStats_overall(i) ==
    /\ pinComp[i].pc = "overallQuery"
    /\ pinComp' = [pinComp EXCEPT ![i].pc = "writeVersion",
                                  ![i].overall = ST(getPinnedCompanyStats_solved(pinComp[i].unionLinks),
                                                    Cardinality(pinComp[i].unionLinks))]
    /\ UNCHANGED <<miscVars, companyVars, pinEnded, dbVars, clock, callVars, histVars>>

\* writePinnedLandingCache: the version is read and the row is built.
getPinnedCompanyStats_writeVersion(i) ==
    /\ pinComp[i].pc = "writeVersion"
    /\ MetaFree
    /\ pinComp' = [pinComp EXCEPT ![i].pc = "writePut",
                                  ![i].row = writePinnedLandingCache_row(
                                                 [overall |-> pinComp[i].overall,
                                                  perList |-> pinComp[i].perList],
                                                 getProgressVersion, clock)]
    /\ UNCHANGED <<miscVars, companyVars, pinEnded, dbVars, clock, callVars, histVars>>

\* writePinnedLandingCache: `await db.pinnedLandingCache.put(row)`;
\* getPinnedCompanyStats returns.
getPinnedCompanyStats_writePut(i) ==
    /\ pinComp[i].pc = "writePut"
    /\ cache' = [cache EXCEPT
                   !["pinnedLandingCache"][makeKey(pinComp[i].manifestAt, pinComp[i].company, "-")] =
                       pinComp[i].row]
    /\ PinContinue(i, [pinComp[i] EXCEPT !.pc = "computed"])
    /\ dirty' = dirty \ {<<"pinnedLandingCache",
                           makeKey(pinComp[i].manifestAt, pinComp[i].company, "-")>>}
    /\ UNCHANGED <<miscVars, companyVars, ledger, metaRow, metaLock, clock, callVars,
                   nIssued, nCommitted, nToggles, bumpRets, verRead>>

\* ------------------------------------------------------------ specifications
\* A fresh database: no progress rows, no meta row, empty cache tables.
\* ------------------------------------------------------------------ domain/normalize.ts (data/csv.ts 66-99)
\* Strings are sequences of characters.  Scheme stands for the prefix
\* "https://h" of an absolute URL and occurs only as the first element.
Scheme == "https://h"
Chars == {"a", "/", "#", "?", " "}

RECURSIVE trimStart(_)
trimStart(s) == IF s = <<>> \/ s[1] # " " THEN s ELSE trimStart(Tail(s))

RECURSIVE trimEnd(_)
trimEnd(s) == IF s = <<>> \/ s[Len(s)] # " " THEN s ELSE trimEnd(SubSeq(s, 1, Len(s) - 1))

\* String.prototype.trim
trim(s) == trimEnd(trimStart(s))

\* s.split(c)[0]: the part of s before the first c
splitFirst(s, c) ==
    LET at == {n \in 1..Len(s) : s[n] = c}
    IN  IF at = {} THEN s ELSE SubSeq(s, 1, (CHOOSE n \in at : \A m \in at : n <= m) - 1)

endsWith(s, c) == Len(s) > 0 /\ s[Len(s)] = c
\* s.slice(0, -1)
sliceLast(s) == SubSeq(s, 1, Len(s) - 1)

\* new URL(s) on a string of this alphabet: the host runs up to the first
\* "/", "?" or "#"; a space or "%" in the host makes the constructor throw,
\* and so does a string without a scheme.
URL_host(s) == splitFirst(splitFirst(splitFirst(Tail(s), "/"), "?"), "#")
URL_parses(s) ==
    /\ Len(s) > 0
    /\ s[1] = Scheme
    /\ \A n \in 1..Len(URL_host(s)) : URL_host(s)[n] \notin {" ", "%"}

\* the path state of the URL parser percent-encodes a space
RECURSIVE URL_encodePath(_)
URL_encodePath(path) ==
    IF path = <<>> THEN <<>>
    ELSE (IF path[1] = " " THEN <<"%", "2", "0">> ELSE <<path[1]>>) \o URL_encodePath(Tail(path))

\* u.hash = ""; u.search = ""; u.toString(): scheme, host and path; the path
\* of a special-scheme URL is never empty.
URL_toString(s) ==
    LET host == URL_host(s)
        rest == SubSeq(s, 2 + Len(host), Len(s))
        path == splitFirst(splitFirst(rest, "?"), "#")
    IN  <<Scheme>> \o host \o (IF path = <<>> THEN <<"/">> ELSE URL_encodePath(path))

\* normalizeLink, data/csv.ts 85-99
normalizeLink(input) ==
    LET trimmed == trim(input)
    IN  IF URL_parses(trimmed)
        THEN LET s == URL_toString(trimmed)
             IN  IF endsWith(s, "/") THEN sliceLast(s) ELSE s
        ELSE LET noHash == splitFirst(trimmed, "#")
                 noQuery == trim(splitFirst(noHash, "?"))
             IN  IF endsWith(noQuery, "/") THEN sliceLast(noQuery) ELSE noQuery

\* normalizeProblemLink, tracker/src/storage/attemptsStore.ts 107-120
normalizeProblemLink(raw) ==
    LET s == trim(raw)
    IN  IF URL_parses(s)
        THEN LET out == URL_toString(s)
             IN  IF endsWith(out, "/") THEN sliceLast(out) ELSE out
        ELSE LET noHash == splitFirst(s, "#")
                 noQuery == trim(splitFirst(noHash, "?"))
             IN  IF endsWith(noQuery, "/") THEN sliceLast(noQuery) ELSE noQuery

Normalizers == {"normalizeLink", "normalizeProblemLink"}
Normalize(fn, s) == IF fn = "normalizeLink" THEN normalizeLink(s) ELSE normalizeProblemLink(s)

\* the link strings fed to the normalizers: relative text and absolute URLs
PlainStrings == UNION {[1..n -> Chars] : n \in 0..MaxLen}
LinkInputs == PlainStrings \cup {<<Scheme>> \o s : s \in PlainStrings}

NoLink == [pc |-> "none", fn |-> "normalizeLink", raw |-> <<>>, out |-> <<>>, again |-> <<>>]

\* normalizeProblemRows (csv.ts 177) / getProblemLink (content_leetcode.ts 25):
\* a raw link is normalized.
normalizeLink_call ==
    /\ linkCall.pc = "none"
    /\ \E fn \in Normalizers, raw \in LinkInputs :
        linkCall' = [pc |-> "once", fn |-> fn, raw |-> raw, out |-> Normalize(fn, raw), again |-> <<>>]
    /\ UNCHANGED <<restVars, putVars, schedVars, aggVars, dbVars, clock, callVars, histVars>>

\* the normalized link is normalized again (the same link read from a second CSV's output)
normalizeLink_again ==
    /\ linkCall.pc = "once"
    /\ linkCall' = [linkCall EXCEPT !.pc = "twice", !.again = Normalize(linkCall.fn, linkCall.out)]
    /\ UNCHANGED <<restVars, putVars, schedVars, aggVars, dbVars, clock, callVars, histVars>>

\* ------------------------------------------------------------------ hooks/useCompanyStatsLazy.ts
\* The scheduling effect of the hook as a whole: its passes, their worker
\* pools and the published map.  A getCompanyStats call (modelled step by
\* step above) counts here only by how it settles: it resolves with the
\* aggregate or it rejects.

\* The cards of the companies page; three of them fill the pool of two and
\* leave one company queued.
CardNames == Companies \cup {"C"}
\* useCompanyStatsLazy.ts 55: withConcurrency(visible, 2, ...)
PoolLimit == 2
WorkerIds == 1..(IF PoolLimit > 1 THEN PoolLimit ELSE 1)
\* visibleNames only grows, so the effect runs at most once per card and
\* once per change of the manifest
PassIds == 1..(Cardinality(CardNames) + Cardinality(ManifestAts) - 1)

\* the manifest the page has loaded first, and the ones a reload can bring
FirstManifestAt == CHOOSE g \in LoadedManifestAts : TRUE
NewerManifestAts(g) == IF g = FirstManifestAt THEN ManifestAts \ {g} ELSE {}

SchedKey(g, name) == <<g, name>>

NoWorker == [pc |-> "none", name |-> "A"]
NoPass ==
    [started |-> FALSE, aborted |-> FALSE, manifestAt |-> FirstManifestAt, q |-> <<>>,
     worker |-> [w \in WorkerIds |-> NoWorker]]

\* One worker of withConcurrency from the point where it tests q.length up to
\* its next suspension in getCompanyStats: it shifts items while the callback
\* returns early (signal aborted, unknown company, key in flight), and stops
\* with a call in flight ("running") or with the queue empty ("done").
RECURSIVE useCompanyStatsLazy_worker(_, _, _, _)
useCompanyStatsLazy_worker(g, q, aborted, inF) ==
    IF q = <<>> THEN [q |-> q, inFlight |-> inF, worker |-> [pc |-> "done", name |-> "A"]]
    ELSE IF aborted \/ Head(q) \notin CardNames \/ SchedKey(g, Head(q)) \in inF
         THEN useCompanyStatsLazy_worker(g, Tail(q), aborted, inF)
         ELSE [q |-> Tail(q), inFlight |-> inF \cup {SchedKey(g, Head(q))},
               worker |-> [pc |-> "running", name |-> Head(q)]]

\* Array.from({ length }, async () => ...): the workers start one after the other.
RECURSIVE useCompanyStatsLazy_workers(_, _, _)
useCompanyStatsLazy_workers(st, n, aborted) ==
    IF n > Cardinality(WorkerIds) THEN st
    ELSE LET r == useCompanyStatsLazy_worker(st.manifestAt, st.q, aborted, st.inFlight)
         IN  useCompanyStatsLazy_workers(
                 [manifestAt |-> st.manifestAt, q |-> r.q, inFlight |-> r.inFlight,
                  worker |-> [st.worker EXCEPT ![n] = r.worker]],
                 n + 1, aborted)

\* The effect run p starts under manifest g over the visible names vis: a new
\* AbortController, a new queue and new workers.
useCompanyStatsLazy_run(g, vis, inF) ==
    LET st == useCompanyStatsLazy_workers(
                  [manifestAt |-> g, q |-> vis, inFlight |-> inF, worker |-> NoPass.worker], 1, FALSE)
    IN  [inFlight |-> st.inFlight,
         pass |-> [started |-> TRUE, aborted |-> FALSE, manifestAt |-> g, q |-> st.q, worker |-> st.worker]]

\* The cleanup of the scheduling effect without its ac.abort()
useCompanyStatsLazy_cleanup_NoAbort(ps) == ps

\* The cleanup of the scheduling effect: `return () => ac.abort()`
useCompanyStatsLazy_cleanup(ps) == [o \in PassIds |-> [ps[o] EXCEPT !.aborted = ps[o].started]]

\* The sequences that list each element of the set S once.
Orderings(S) == {sq \in [1..Cardinality(S) -> S] : \A a, b \in 1..Cardinality(S) : sq[a] = sq[b] => a = b}

Running(p, w) == pass[p].started /\ pass[p].worker[w].pc = "running"

\* The IntersectionObserver callback of CompaniesPage reports cards that came
\* into view: visibleNames gets a new array, the effect of the hook is cleaned
\* up (ac.abort()) and runs again with a new AbortController and a new pool.
useCompanyStatsLazy_effect ==
    \E S \in (SUBSET (CardNames \ SeqToSet(visible))) \ {{}} : \E new \in Orderings(S) :
        \E p \in PassIds :
            /\ ~pass[p].started
            /\ \A o \in PassIds : o < p => pass[o].started
            /\ visible' = visible \o new
            /\ LET st == useCompanyStatsLazy_run(lastManifestRef, visible', inFlight)
               IN  /\ pass' = [useCompanyStatsLazy_cleanup(pass) EXCEPT ![p] = st.pass]
                   /\ inFlight' = st.inFlight
            /\ UNCHANGED <<restVars, statsByCompany, failed, linkVars, putVars, comp, ended, pinVars,
                           dbVars, clock, callVars, histVars>>

\* The marker of a call that settled is removed (`finally`).
useCompanyStatsLazy_finally_Keep(inF, key) == inF

useCompanyStatsLazy_finally(inF, key) == inF \ {key}

\* getCompanyStats resolves for worker w of pass p: unless the pass was
\* aborted the aggregate is published (an entry already there is kept); the
\* marker is removed and the worker goes on with the queue.
useCompanyStatsLazy_resolved(p, w) ==
    /\ Running(p, w)
    /\ LET name == pass[p].worker[w].name
           r == useCompanyStatsLazy_worker(pass[p].manifestAt, pass[p].q, pass[p].aborted,
                        useCompanyStatsLazy_finally(inFlight, SchedKey(pass[p].manifestAt, name)))
       IN  /\ statsByCompany' = IF pass[p].aborted THEN statsByCompany ELSE statsByCompany \cup {name}
           /\ pass' = [pass EXCEPT ![p].q = r.q, ![p].worker[w] = r.worker]
           /\ inFlight' = r.inFlight
    /\ UNCHANGED <<restVars, visible, failed, linkVars, putVars, comp, ended, pinVars,
                   dbVars, clock, callVars, histVars>>

\* getCompanyStats rejects for worker w of pass p (a fetch failed or was
\* aborted, a cache write failed): there is no catch, so after `finally` the
\* callback rejects, the worker's loop ends with it and Promise.all rejects.
\* The other worker keeps running.
useCompanyStatsLazy_rejected(p, w) ==
    /\ Running(p, w)
    /\ LET name == pass[p].worker[w].name
       IN  /\ pass' = [pass EXCEPT ![p].worker[w] = [pc |-> "dead", name |-> name]]
           /\ inFlight' = useCompanyStatsLazy_finally(inFlight, SchedKey(pass[p].manifestAt, name))
           /\ failed' = failed \cup {name}
    /\ UNCHANGED <<restVars, visible, statsByCompany, linkVars, putVars, comp, ended, pinVars,
                   dbVars, clock, callVars, histVars>>

\* The page gets a manifest with a new generatedAt: the scheduling effect is
\* cleaned up, the first effect (36-44) clears the in-flight set and the
\* published map, and the scheduling effect runs again over the visible names
\* (it returns at once when there are none).
useCompanyStatsLazy_manifestChange ==
    \E g \in NewerManifestAts(lastManifestRef) :
        /\ lastManifestRef' = g
        /\ statsByCompany' = {}
        /\ IF visible = <<>>
           THEN pass' = useCompanyStatsLazy_cleanup(pass) /\ inFlight' = {}
           ELSE \E p \in PassIds :
                   /\ ~pass[p].started
                   /\ \A o \in PassIds : o < p => pass[o].started
                   /\ LET st == useCompanyStatsLazy_run(g, visible, {})
                      IN  /\ pass' = [useCompanyStatsLazy_cleanup(pass) EXCEPT ![p] = st.pass]
                          /\ inFlight' = st.inFlight
        /\ UNCHANGED <<poolVars, popupVars, visible, failed, linkVars, putVars, comp, ended, pinVars,
                       dbVars, clock, callVars, histVars>>

\* ------------------------------------------------------------------ utils/functions.ts: withConcurrency
\* withConcurrency(items, limit, fn) for any items and any fn.  Each call has
\* its own queue and its own workers.  An item is known by its position in
\* `items`; its value is truthy ("f", a file or a name) or falsy ("", the
\* empty string).
PoolIds == {1, 2}
ItemValues == {"f", ""}
ItemLists == UNION {[1..n -> ItemValues] : n \in 0..MaxItems}
Limits == 0..MaxLimit

\* Math.max(1, limit) with one worker per item instead
withConcurrency_length_PerItem(limit, n) == IF n > 1 THEN n ELSE 1

\* Math.max(1, limit)
withConcurrency_length(limit, n) == IF limit > 1 THEN limit ELSE 1

NoPool ==
    [state |-> "none", limit |-> 0, items |-> <<>>, q |-> <<>>,
     worker |-> [w \in 1..1 |-> [pc |-> "ended", item |-> 0]],
     invoked |-> <<>>, completed |-> {}]

\* One worker from its test of q.length to its next `await fn(item)`:
\* `if (!item) return` ends the worker on a falsy item, without calling fn.
withConcurrency_loop(c, w) ==
    IF c.q = <<>> THEN [c EXCEPT !.worker[w] = [pc |-> "ended", item |-> 0]]
    ELSE IF c.items[Head(c.q)] = ""
         THEN [c EXCEPT !.q = Tail(c.q), !.worker[w] = [pc |-> "ended", item |-> 0]]
         ELSE [c EXCEPT !.q = Tail(c.q), !.worker[w] = [pc |-> "awaiting", item |-> Head(c.q)],
                        !.invoked[Head(c.q)] = @ + 1]

RECURSIVE withConcurrency_spawn(_, _)
withConcurrency_spawn(c, w) ==
    IF w > Len(c.worker) THEN c ELSE withConcurrency_spawn(withConcurrency_loop(c, w), w + 1)

\* Promise.all(workers): resolved once every worker has ended; a rejection stays.
withConcurrency_settle(c) ==
    IF c.state = "pending" /\ \A w \in 1..Len(c.worker) : c.worker[w].pc = "ended"
    THEN [c EXCEPT !.state = "resolved"] ELSE c

\* withConcurrency is called: q = [...items], the workers are created and
\* each runs up to its first await.
withConcurrency_call(id) ==
    /\ pool[id].state = "none"
    /\ \A o \in PoolIds : o < id => pool[o].state # "none"
    /\ \E items \in ItemLists, limit \in Limits :
        pool' = [pool EXCEPT ![id] =
                   withConcurrency_settle(withConcurrency_spawn(
                       [state |-> "pending", limit |-> limit, items |-> items,
                        q |-> [n \in 1..Len(items) |-> n],
                        worker |-> [w \in 1..withConcurrency_length(limit, Len(items)) |->
                                       [pc |-> "none", item |-> 0]],
                        invoked |-> [n \in 1..Len(items) |-> 0], completed |-> {}], 1))]
    /\ UNCHANGED <<manifestVars, popupVars, linkVars, putVars, schedVars, aggVars, dbVars, clock, callVars, histVars>>

\* fn(item) resolves for worker w: the worker goes round its loop.
withConcurrency_fnResolves(id, w) ==
    /\ pool[id].state # "none"
    /\ w \in 1..Len(pool[id].worker)
    /\ pool[id].worker[w].pc = "awaiting"
    /\ pool' = [pool EXCEPT ![id] =
                  withConcurrency_settle(withConcurrency_loop(
                      [pool[id] EXCEPT !.completed = @ \cup {pool[id].worker[w].item}], w))]
    /\ UNCHANGED <<manifestVars, popupVars, linkVars, putVars, schedVars, aggVars, dbVars, clock, callVars, histVars>>

\* fn(item) rejects for worker w: the worker ends and Promise.all rejects at
\* once; the other workers go on.
withConcurrency_fnRejects(id, w) ==
    /\ pool[id].state # "none"
    /\ w \in 1..Len(pool[id].worker)
    /\ pool[id].worker[w].pc = "awaiting"
    /\ pool' = [pool EXCEPT ![id].worker[w] = [pc |-> "ended", item |-> 0],
                            ![id].state = "rejected"]
    /\ UNCHANGED <<manifestVars, popupVars, linkVars, putVars, schedVars, aggVars, dbVars, clock, callVars, histVars>>

\* ------------------------------------------------------------------ tracker/src/content_leetcode.ts
\* The background worker's circuit breaker against popup storms.
POPUP_COOLDOWN_MS == 10000

PopupReqIds == 1..MaxPopupRequests

\* Date.now() when the worker starts (any time of day is beyond the cooldown)
\* and the times the clock can show.
PopupTickMs == POPUP_COOLDOWN_MS \div 2
PopupStartMs == POPUP_COOLDOWN_MS
PopupEndMs == PopupStartMs + MaxPopupTicks * PopupTickMs

NoPopupReq == [pc |-> "none", response |-> "none"]

\* Date.now() advances in the worker.
Date_now_advance ==
    /\ dateNow < PopupEndMs
    /\ dateNow' = dateNow + PopupTickMs
    /\ UNCHANGED <<popupInFlight, lastPopupAt, popupReq, poolVars, manifestVars, linkVars, putVars,
                   schedVars, aggVars, dbVars, clock, callVars, histVars>>

\* canOpenPopupNow(): its result and the flag and the time it leaves.
canOpenPopupNow(now, flag, lastAt) ==
    IF flag THEN [ret |-> FALSE, popupInFlight |-> flag, lastPopupAt |-> lastAt]
    ELSE IF now - lastAt < POPUP_COOLDOWN_MS
         THEN [ret |-> FALSE, popupInFlight |-> flag, lastPopupAt |-> lastAt]
         ELSE [ret |-> TRUE, popupInFlight |-> TRUE, lastPopupAt |-> now]

\* An OPEN_SAVE_POPUP message arrives: a suppressed request answers { ok: true }
\* at once; an admitted one is suspended in `await putDraft(draftId, req.draft)`.
onMessage_OPEN_SAVE_POPUP(r) ==
    /\ popupReq[r].pc = "none"
    /\ \A o \in PopupReqIds : o < r => popupReq[o].pc # "none"
    /\ LET c == canOpenPopupNow(dateNow, popupInFlight, lastPopupAt)
       IN  /\ popupInFlight' = c.popupInFlight
           /\ lastPopupAt' = c.lastPopupAt
           /\ popupReq' = [popupReq EXCEPT ![r] =
                             IF c.ret THEN [pc |-> "putDraft", response |-> "none"]
                             ELSE [pc |-> "done", response |-> "suppressed"]]
    /\ UNCHANGED <<dateNow, poolVars, manifestVars, linkVars, putVars, schedVars, aggVars,
                   dbVars, clock, callVars, histVars>>

\* putDraft resolves: the handler is suspended in `await openSaveUI(draftId)`.
putDraft_resolves(r) ==
    /\ popupReq[r].pc = "putDraft"
    /\ popupReq' = [popupReq EXCEPT ![r].pc = "openSaveUI"]
    /\ UNCHANGED <<popupInFlight, lastPopupAt, dateNow, poolVars, manifestVars, linkVars, putVars,
                   schedVars, aggVars, dbVars, clock, callVars, histVars>>

\* putDraft rejects (the draft cannot be stored): the await is outside the
\* try / finally, so control goes to the handler's catch, which answers
\* { ok: false, error }.
putDraft_rejects(r) ==
    /\ popupReq[r].pc = "putDraft"
    /\ popupReq' = [popupReq EXCEPT ![r] = [pc |-> "done", response |-> "error"]]
    /\ UNCHANGED <<popupInFlight, lastPopupAt, dateNow, poolVars, manifestVars, linkVars, putVars,
                   schedVars, aggVars, dbVars, clock, callVars, histVars>>

\* `finally { popupInFlight = false; }`
onMessage_finally(flag) == FALSE

\* openSaveUI resolves (popup window, or the fallback tab): finally, { ok: true }.
openSaveUI_resolves(r) ==
    /\ popupReq[r].pc = "openSaveUI"
    /\ popupInFlight' = onMessage_finally(popupInFlight)
    /\ popupReq' = [popupReq EXCEPT ![r] = [pc |-> "done", response |-> "ok"]]
    /\ UNCHANGED <<lastPopupAt, dateNow, poolVars, manifestVars, linkVars, putVars,
                   schedVars, aggVars, dbVars, clock, callVars, histVars>>

\* openSaveUI rejects (the popup failed and chrome.tabs.create rejects):
\* finally, then the handler's catch answers { ok: false, error }.
openSaveUI_rejects(r) ==
    /\ popupReq[r].pc = "openSaveUI"
    /\ popupInFlight' = onMessage_finally(popupInFlight)
    /\ popupReq' = [popupReq EXCEPT ![r] = [pc |-> "done", response |-> "error"]]
    /\ UNCHANGED <<lastPopupAt, dateNow, poolVars, manifestVars, linkVars, putVars,
                   schedVars, aggVars, dbVars, clock, callVars, histVars>>

Init ==
    /\ ledger = [l \in Links |-> NoProgress]
    /\ metaRow = NoMeta
    /\ metaLock = 0
    /\ clock = 0
    /\ cache = [t \in Tables |-> [k \in CacheKeys(t) |-> NoCacheRow]]
    /\ mut = [i \in MutIds |-> IdleMut]
    /\ bump = [i \in BumpIds |-> IdleBump]
    /\ cacheCall = [i \in CacheIds |-> IdleCacheCall]
    /\ nIssued = [mut |-> 0, bump |-> 0, cache |-> 0, agg |-> 0, pin |-> 0]
    /\ nCommitted = 0
    /\ nToggles = [l \in Links |-> 0]
    /\ bumpRets = <<>>
    /\ verRead = [value |-> Null, committed |-> 0]
    /\ dirty = {}
    /\ comp = [i \in CompIds |-> IdleComp]
    /\ inFlight = {}
    /\ ended = NoEnded
    /\ pinComp = [i \in PinIds |-> IdlePinned]
    /\ pinEnded = NoPinEnded
    /\ linkCall = NoLink
    /\ putError = NoPutError
    /\ visible = <<>>
    /\ pass = [p \in PassIds |-> NoPass]
    /\ statsByCompany = {}
    /\ failed = {}
    /\ pool = [c \in PoolIds |-> NoPool]
    /\ lastManifestRef = FirstManifestAt
    /\ popupInFlight = FALSE
    /\ lastPopupAt = 0
    /\ popupReq = [r \in PopupReqIds |-> NoPopupReq]
    /\ dateNow = PopupStartMs

\* The progress ledger under concurrent user actions.
Next ==
    \/ \E i \in MutIds : toggleCompleted_get(i)
    \/ \E i \in MutIds : toggleCompleted_put(i)
    \/ \E i \in MutIds : setMinutes_get(i)
    \/ \E i \in MutIds : setMinutes_put(i)
    \/ \E i \in MutIds : setNotes_get(i)
    \/ \E i \in MutIds : setNotes_put(i)
    \/ Tick

Spec == Init /\ [][Next]_vars

\* The version counter under concurrent bumpProgressVersion / getProgressVersion calls.
NextBump ==
    \/ \E i \in BumpIds : bumpProgressVersion_call(i)
    \/ \E i \in BumpIds : bumpProgressVersion_get(i)
    \/ \E i \in BumpIds : bumpProgressVersion_put(i)
    \/ getProgressVersion_call
    \/ Tick

SpecBump == Init /\ [][NextBump]_vars

\* The cache modules under concurrent readers and writers, version bumps and toggles.
NextCache ==
    \/ \E i \in CacheIds : readCompanyCache_get(i)
    \/ \E i \in CacheIds : readCompanyCache_return(i)
    \/ \E i \in CacheIds : writeCompanyCache_version(i)
    \/ \E i \in CacheIds : writeCompanyCache_put(i)
    \/ \E i \in CacheIds : readListStatsCache_get(i)
    \/ \E i \in CacheIds : readListStatsCache_return(i)
    \/ \E i \in CacheIds : writeListStatsCache_version(i)
    \/ \E i \in CacheIds : writeListStatsCache_put(i)
    \/ \E i \in CacheIds : readPinnedLandingCache_get(i)
    \/ \E i \in CacheIds : readPinnedLandingCache_return(i)
    \/ \E i \in CacheIds : writePinnedLandingCache_version(i)
    \/ \E i \in CacheIds : writePinnedLandingCache_put(i)
    \/ \E i \in CacheIds : readCompanyFileQuickCache_get(i)
    \/ \E i \in CacheIds : readCompanyFileQuickCache_return(i)
    \/ \E i \in CacheIds : writeCompanyFileQuickCache_version(i)
    \/ \E i \in CacheIds : writeCompanyFileQuickCache_put(i)
    \/ \E i \in BumpIds : bumpProgressVersion_call(i)
    \/ \E i \in BumpIds : bumpProgressVersion_get(i)
    \/ \E i \in BumpIds : bumpProgressVersion_put(i)

SpecCache == Init /\ [][NextCache]_vars

\* The cache modules while the user toggles problems.
NextStale ==
    \/ \E i \in CacheIds : readCompanyCache_get(i)
    \/ \E i \in CacheIds : readCompanyCache_return(i)
    \/ \E i \in CacheIds : writeCompanyCache_version(i)
    \/ \E i \in CacheIds : writeCompanyCache_put(i)
    \/ \E i \in CacheIds : readListStatsCache_get(i)
    \/ \E i \in CacheIds : readListStatsCache_return(i)
    \/ \E i \in CacheIds : writeListStatsCache_version(i)
    \/ \E i \in CacheIds : writeListStatsCache_put(i)
    \/ \E i \in CacheIds : readPinnedLandingCache_get(i)
    \/ \E i \in CacheIds : readPinnedLandingCache_return(i)
    \/ \E i \in CacheIds : writePinnedLandingCache_version(i)
    \/ \E i \in CacheIds : writePinnedLandingCache_put(i)
    \/ \E i \in CacheIds : readCompanyFileQuickCache_get(i)
    \/ \E i \in CacheIds : readCompanyFileQuickCache_return(i)
    \/ \E i \in CacheIds : writeCompanyFileQuickCache_version(i)
    \/ \E i \in CacheIds : writeCompanyFileQuickCache_put(i)
    \/ \E i \in MutIds : toggleCompleted_get(i)
    \/ \E i \in MutIds : toggleCompleted_put(i)

SpecStale == Init /\ [][NextStale]_vars

\* FilePreviewPage: the user clicks the checkbox of a row, `void toggleCompleted(r.link, r.difficulty)`.
FilePreviewPage_toggle(i) ==
    /\ nIssued.mut < MaxAggToggles
    /\ \A j \in MutIds : j < i => mut[j].pc # "idle"
    /\ toggleCompleted_get(i)

\* The aggregate computations of the lazy scheduler and of StatsPage, with
\* effect cleanups and failing fetches.
NextAgg ==
    \/ \E i \in CompIds : useCompanyStatsLazy_task(i)
    \/ \E i \in CompIds : StatsPage_task(i)
    \/ AbortController_abort
    \/ \E i \in CompIds : getCompanyStats_cached(i)
    \/ \E i \in CompIds : loadCsv_resolve(i)
    \/ \E i \in CompIds : loadCsv_reject(i)
    \/ \E i \in CompIds : getCompanyStats_query(i)
    \/ \E i \in CompIds : getCompanyStats_writeVersion(i)
    \/ \E i \in CompIds : getCompanyStats_writePut(i)

SpecAgg == Init /\ [][NextAgg]_vars

\* The aggregate computations of the lazy scheduler while the user toggles
\* problems, with effect cleanups and failing fetches.
NextAggLedger ==
    \/ \E i \in CompIds : useCompanyStatsLazy_task(i)
    \/ AbortController_abort
    \/ \E i \in CompIds : getCompanyStats_cached(i)
    \/ \E i \in CompIds : loadCsv_resolve(i)
    \/ \E i \in CompIds : loadCsv_reject(i)
    \/ \E i \in CompIds : getCompanyStats_query(i)
    \/ \E i \in CompIds : getCompanyStats_writeVersion(i)
    \/ \E i \in CompIds : getCompanyStats_writePut(i)
    \/ \E i \in MutIds : FilePreviewPage_toggle(i)
    \/ \E i \in MutIds : toggleCompleted_put(i)

SpecAggLedger == Init /\ [][NextAggLedger]_vars

\* The pinned-company computations of LandingPage, with effect cleanups and
\* failing fetches.
NextPinned ==
    \/ \E i \in PinIds : LandingPage_task(i)
    \/ LandingPage_cleanup
    \/ \E i \in PinIds : getPinnedCompanyStats_cached(i)
    \/ \E i \in PinIds : getPinnedCompanyStats_loadCsv(i)
    \/ \E i \in PinIds : getPinnedCompanyStats_loadCsvReject(i)
    \/ \E i \in PinIds : getPinnedCompanyStats_listQuery(i)
    \/ \E i \in PinIds : getPinnedCompanyStats_overall(i)
    \/ \E i \in PinIds : getPinnedCompanyStats_writeVersion(i)
    \/ \E i \in PinIds : getPinnedCompanyStats_writePut(i)

SpecPinned == Init /\ [][NextPinned]_vars

\* ------------------------------------------------------------------ claims
NoMutationInFlight == \A i \in MutIds : mut[i].pc = "idle"

\* C1: after any sequence of N committed ledger mutations (toggleCompleted,
\* setMinutes, setNotes), getProgressVersion() equals its value before the
\* sequence (0 on a fresh database) plus N.
C1_VersionPlusN == NoMutationInFlight => getProgressVersion = nCommitted

\* C8: a ledger mutation's record write and its version bump are one atomic
\* step: the step that applies the record write raises the version counter by
\* one, and no other step of a mutation does.
C8_RecordAndVersionTogether ==
    [][(nCommitted' = nCommitted + 1) <=> (getProgressVersion' = getProgressVersion + 1)]_vars

\* C10: concurrent toggleCompleted calls are serialized: when only toggles were
\* issued and all have returned, a link is completed exactly when an odd number
\* of toggles was applied to it.
C10_TogglesSerialized ==
    (NoMutationInFlight /\ nCommitted = nToggles["p1"] + nToggles["p2"]) =>
        \A l \in Links : (ledger[l].exists /\ ledger[l].completed) <=> (nToggles[l] % 2 = 1)

\* C7: toggleCompleted(key, d) reads the record under key and the time; with no
\* record it writes {completed: true, minutes: null, notes: null, difficulty: d},
\* with a record it writes that record with completed flipped and minutes, notes
\* and difficulty as read; either way updatedAt is the time it read.
C7_ToggleContract ==
    [][\A i \in MutIds :
        /\ (mut[i].pc = "idle" /\ mut'[i].pc = "put" /\ mut'[i].op = "toggle") =>
              /\ mut'[i].existing = ledger[mut'[i].link]
              /\ mut'[i].now = clock
        /\ (mut[i].pc = "put" /\ mut[i].op = "toggle" /\ mut'[i].pc = "idle") =>
              LET before == mut[i].existing
                  after == ledger'[mut[i].link]
              IN  /\ after.exists
                  /\ after.updatedAt = mut[i].now
                  /\ \A l \in Links \ {mut[i].link} : ledger'[l] = ledger[l]
                  /\ IF before.exists
                     THEN /\ after.completed = ~before.completed
                          /\ after.minutes = before.minutes
                          /\ after.notes = before.notes
                          /\ after.difficulty = before.difficulty
                     ELSE /\ after.completed
                          /\ after.minutes = Null
                          /\ after.notes = Null
                          /\ after.difficulty = mut[i].difficulty]_vars

\* C7 witness: a toggle has flipped an existing, completed record back to false.
C7_Witness ==
    \E l \in Links :
        /\ ledger[l].exists /\ ~ledger[l].completed
        /\ nToggles[l] = 2 /\ nCommitted = 2
        /\ ledger[l].updatedAt = 1

\* C9: bumpProgressVersion is an atomic increment-and-return: the n-th call to
\* commit returns n, the counter equals the number of committed calls, and
\* getProgressVersion() returns the number of bumps committed before it (0 when
\* the counter was never written).
C9_BumpAtomic ==
    /\ \A n \in 1..Len(bumpRets) : bumpRets[n] = n
    /\ MetaFree => getProgressVersion = Len(bumpRets)
    /\ verRead.value # Null => verRead.value = verRead.committed

\* C9 witness: one call has returned 1, a second holds the transaction and a
\* third waits for it, after a read of the never-written counter returned 0.
C9_Witness ==
    /\ bumpRets = <<1>>
    /\ getProgressVersion = 1
    /\ \E i, j \in BumpIds : i # j /\ bump[i].pc = "put" /\ bump[j].pc = "tx"
    /\ verRead = [value |-> 0, committed |-> 0]

\* A stand-alone read*Cache call returns in this step.
ReadReturns(i) == cacheCall[i].pc = "got" /\ cacheCall'[i].pc = "returned"

\* C2: after a ledger mutation, a cache entry written before it for a scope
\* containing the mutated item is invalid: a read of its key returns null
\* until the entry has been rewritten.
C2_MutationInvalidates ==
    [][\A i \in CacheIds :
        (ReadReturns(i) /\ <<cacheCall[i].table, cacheCall[i].key>> \in dirty) =>
            ~cacheCall'[i].result.hit]_vars

\* C3: a read of any of the four cache tables fetches the entry under its key
\* and returns non-null exactly when the entry exists and its progressVersion
\* equals the version counter at the time the read checks it; the aggregate it
\* returns is the one stored in that entry.
C3_ReadReturnsOnlyCurrent ==
    [][\A i \in CacheIds :
        /\ (cacheCall'[i].pc = "got" /\ cacheCall[i].pc # "got") =>
              cacheCall'[i].row = cache[cacheCall'[i].table][cacheCall'[i].key]
        /\ ReadReturns(i) =>
              LET row == cacheCall[i].row
                  res == cacheCall'[i].result
              IN  /\ res.hit <=> (row.exists /\ row.progressVersion = getProgressVersion)
                  /\ ~res.hit => res = NullResult
                  /\ res.hit =>
                       WriteRow(cacheCall[i].table, res.stats, row.progressVersion,
                                row.computedAt) = row]_vars

\* C3 witness: one read has returned the entry stamped with version 1 while the
\* counter was 1, and after a second bump another read of the same entry has
\* returned null.
C3_Witness ==
    \E i, j \in CacheIds :
        /\ cacheCall[i].op = "read" /\ cacheCall[i].pc = "returned"
        /\ cacheCall[i].result.hit /\ cacheCall[i].row.progressVersion = 1
        /\ cacheCall[j].op = "read" /\ cacheCall[j].pc = "returned"
        /\ ~cacheCall[j].result.hit /\ cacheCall[j].row.exists
        /\ cacheCall[j].row.progressVersion = 1
        /\ getProgressVersion = 2
        /\ cacheCall[i].table = "pinnedLandingCache"

\* The difficulty tags the rows of a company's files give a link.
SourceTags(c, l) ==
    {d \in Difficulty : \E n \in 1..Len(CompanyFiles[c]) :
        \E m \in 1..Len(CsvItems[CompanyFiles[c][n]]) :
            CsvItems[CompanyFiles[c][n]][m] = Row(l, d)}

\* The ways to put each unique link of a company under one of its source tags.
TagChoices(c) == {a \in [CompanyLinks(c) -> Difficulty] : \A l \in CompanyLinks(c) : a[l] \in SourceTags(c, l)}

Bucket(st, d) == CASE d = "EASY" -> st.easy [] d = "MEDIUM" -> st.medium [] d = "HARD" -> st.hard

\* The total of st is the number of unique links of company c, each counted in
\* exactly one difficulty bucket, under one of its source tags.
UniqueTotals(c, st) ==
    /\ st.total.total = Cardinality(CompanyLinks(c))
    /\ \E a \in TagChoices(c) :
          \A d \in Difficulty : Bucket(st, d).total = Cardinality({l \in CompanyLinks(c) : a[l] = d})

\* The request of slot i has computed the aggregate of its scope. (A request
\* whose signal was aborted before its fetches began skips every file and
\* returns the zero placeholder, which no caller uses and no cache stores.)
HoldsAggregate(i) == comp[i].pc \in {"writeVersion", "writePut"}

\* The request that ended last returned an aggregate of its scope: it did not
\* throw, and it skipped no file.
ReturnedAggregate ==
    \/ ended.outcome \in {"computed", "hit"}
    \/ ended.outcome = "empty" /\ ended.skipped = {}

\* The company aggregates that getCompanyStats computes, returns or stores in
\* companyCache count each unique link of the company once.
CompanyTotalsUnique ==
    /\ \A i \in CompIds : HoldsAggregate(i) => UniqueTotals(comp[i].company, comp[i].stats)
    /\ ReturnedAggregate => UniqueTotals(ended.company, ended.stats)
    /\ \A k \in CacheKeys("companyCache") :
          cache["companyCache"][k].exists =>
              UniqueTotals(k.company,
                  readCompanyCache_validate(cache["companyCache"][k],
                                            cache["companyCache"][k].progressVersion).stats)

\* The pinned-company aggregates that getPinnedCompanyStats stores in
\* pinnedLandingCache, or returns from a request that skipped no file, have
\* the number of unique links of the company as their overall total.
PinnedTotalsUnique ==
    /\ \A k \in CacheKeys("pinnedLandingCache") :
          cache["pinnedLandingCache"][k].exists =>
              cache["pinnedLandingCache"][k].data.overallTotal = Cardinality(CompanyLinks(k.company))
    /\ (pinEnded.outcome \in {"computed", "hit"} /\ pinEnded.skipped = {}) =>
          pinEnded.stats.overall.total = Cardinality(CompanyLinks(pinEnded.company))

\* C5: the total of a scope's aggregate (a company aggregate of
\* getCompanyStats, a pinned-company aggregate of getPinnedCompanyStats) is the
\* number of unique links of the scope's files: a link that is in several
\* files, or in several rows of one file, counts once in the overall total and
\* once in exactly one difficulty bucket.
C5_TotalsCountUniqueLinks == CompanyTotalsUnique /\ PinnedTotalsUnique

\* C6: when a computation reads the ledger, the solved count of each difficulty
\* bucket of its aggregate is the number of the company's unique links that are
\* under that source tag and have a ledger record with completed = true; links
\* without a record count as unsolved, the difficulty stored on the record plays
\* no part, and the aggregate is returned as computed.
C6_SolvedBySourceDifficulty ==
    [][\A i \in CompIds :
        /\ (comp[i].pc = "query" /\ comp'[i].pc = "writeVersion") =>
              LET c == comp[i].company
                  st == comp'[i].stats
                  done == {l \in CompanyLinks(c) : ledger[l].exists /\ ledger[l].completed}
              IN  /\ st.total.solved = Cardinality(done)
                  /\ \E a \in TagChoices(c) :
                        \A d \in Difficulty :
                            /\ Bucket(st, d).total = Cardinality({l \in CompanyLinks(c) : a[l] = d})
                            /\ Bucket(st, d).solved = Cardinality({l \in done : a[l] = d})
        /\ (comp[i].pc = "writeVersion" /\ comp'[i].pc = "writePut") =>
              comp'[i].stats = comp[i].stats
        /\ (comp[i].pc = "writePut" /\ comp'[i].pc = "idle") =>
              ended'.outcome = "computed" /\ ended'.stats = comp[i].stats]_vars

\* C6 witness: p2 was completed from company B's list (stored difficulty HARD)
\* and p1 has no record; the aggregate of company A, where p2 is tagged
\* MEDIUM, counts one solved MEDIUM and no solved HARD or EASY.
C6_Witness ==
    \E i \in CompIds :
        /\ comp[i].pc = "writeVersion" /\ comp[i].company = "A"
        /\ ledger["p2"].exists /\ ledger["p2"].completed /\ ledger["p2"].difficulty = "HARD"
        /\ ~ledger["p1"].exists
        /\ comp[i].stats.medium.solved = 1 /\ comp[i].stats.hard.solved = 0
        /\ comp[i].stats.easy.solved = 0 /\ comp[i].stats.total.solved = 1
        /\ \A j \in MutIds : mut[j].pc = "idle"

\* The request of slot i has completed a pass of CSV fetches for its scope.
Fetched(i) == comp[i].pc \in {"query", "writeVersion", "writePut"}

\* C4: of two requests for the same (manifestAt, company) that are in flight
\* together, whoever issued them, at most one runs the aggregation: never have
\* both completed a pass of CSV fetches for the company.
C4_OneAggregatorRun ==
    \A i, j \in CompIds :
        (i # j /\ CompKey(i) = CompKey(j)) => ~(Fetched(i) /\ Fetched(j))
\* The link normalizers applied to bounded inputs.
NextLink ==
    \/ normalizeLink_call
    \/ normalizeLink_again

SpecLink == Init /\ [][NextLink]_vars

\* C11: link normalization is idempotent: normalizing an already normalized
\* link gives the same link, in the URL branch and in the fallback branch.
C11_NormalizeIdempotent == linkCall.pc = "twice" => linkCall.again = linkCall.out

\* ------------------------------------------------------------------ C12
\* The list page and the file page used one after the other: an aggregate is
\* requested while no toggle is pending, and an item is toggled while no
\* aggregate request is running.
CompaniesPage_task(i) == NoMutationInFlight /\ useCompanyStatsLazy_task(i)

FilePreviewPage_markCompleted(i) == (\A j \in CompIds : ~Live(j)) /\ FilePreviewPage_toggle(i)

NextRefresh ==
    \/ \E i \in CompIds : CompaniesPage_task(i)
    \/ \E i \in MutIds : FilePreviewPage_markCompleted(i)
    \/ \E i \in MutIds : toggleCompleted_put(i)
    \/ \E i \in CompIds : getCompanyStats_cached(i)
    \/ \E i \in CompIds : loadCsv_resolve(i)
    \/ \E i \in CompIds : getCompanyStats_query(i)
    \/ \E i \in CompIds : getCompanyStats_writeVersion(i)
    \/ \E i \in CompIds : getCompanyStats_writePut(i)

SpecRefresh == Init /\ [][NextRefresh]_vars

\* C12: an aggregate request made after an item of the scope was marked
\* completed returns solved counts that include the item, also when the
\* scope's aggregate had been computed and cached before: the overall solved
\* count and the solved count of each difficulty bucket are those of the
\* ledger when the request was made.
C12_NextRequestIncludesItem ==
    [][\A i \in CompIds :
        (Live(i) /\ comp'[i].pc = "idle" /\ ended'.outcome \in {"hit", "computed"}) =>
            LET c == comp[i].company
                st == ended'.stats
                done == {l \in CompanyLinks(c) : ledger[l].exists /\ ledger[l].completed}
            IN  /\ st.total.solved = Cardinality(done)
                /\ \E a \in TagChoices(c) :
                      \A d \in Difficulty : Bucket(st, d).solved = Cardinality({l \in done : a[l] = d})]_vars

\* ------------------------------------------------------------------ C13
\* The progress ledger when a put can fail.
NextPutFails ==
    \/ \E i \in MutIds : toggleCompleted_get(i)
    \/ \E i \in MutIds : toggleCompleted_put(i)
    \/ \E i \in MutIds : toggleCompleted_putFails(i)
    \/ \E i \in MutIds : setMinutes_get(i)
    \/ \E i \in MutIds : setMinutes_put(i)
    \/ \E i \in MutIds : setMinutes_putFails(i)
    \/ \E i \in MutIds : setNotes_get(i)
    \/ \E i \in MutIds : setNotes_put(i)
    \/ \E i \in MutIds : setNotes_putFails(i)

SpecPutFails == Init /\ [][NextPutFails]_vars

\* C13: a ledger mutation whose storage write fails changes neither the
\* progress records nor the version counter, and its caller gets the error:
\* a call ends without a committed write exactly when it is rejected.
C13_FailedPutAtomic ==
    [][\A i \in MutIds :
        (mut[i].pc = "put" /\ mut'[i].pc = "idle" /\ nCommitted' = nCommitted) =>
            /\ ledger' = ledger
            /\ metaRow' = metaRow
            /\ putError' = [outcome |-> "rejected", op |-> mut[i].op, link |-> mut[i].link]]_vars

\* C13 witness: a toggle of p1 was rejected after an earlier mutation had
\* created p1's record; the record is still there.
C13_Witness ==
    /\ putError.outcome = "rejected" /\ putError.op = "toggle" /\ putError.link = "p1"
    /\ ledger["p1"].exists /\ ledger["p1"].completed
    /\ nCommitted = 1
    /\ NoMutationInFlight

\* ------------------------------------------------------------------ C14
\* C14: in the computation of a company with several files, a file whose fetch
\* or parse fails does not abort the computation: a request that was not
\* cancelled never ends by throwing while its files are being fetched; it
\* goes on with the other files.
C14_SourceFailureIsolated ==
    [][\A i \in CompIds :
        (comp[i].pc = "fetch" /\ ~comp[i].aborted) =>
            ~(comp'[i].pc = "idle" /\ ended'.outcome = "thrown")]_vars

\* ------------------------------------------------------------------ C15
\* The company aggregator when the cache write can fail.
NextWriteFails ==
    \/ \E i \in CompIds : useCompanyStatsLazy_task(i)
    \/ \E i \in CompIds : StatsPage_task(i)
    \/ AbortController_abort
    \/ \E i \in CompIds : getCompanyStats_cached(i)
    \/ \E i \in CompIds : loadCsv_resolve(i)
    \/ \E i \in CompIds : loadCsv_reject(i)
    \/ \E i \in CompIds : getCompanyStats_query(i)
    \/ \E i \in CompIds : getCompanyStats_writeVersion(i)
    \/ \E i \in CompIds : getCompanyStats_writePut(i)
    \/ \E i \in CompIds : getCompanyStats_writeFails(i)

SpecWriteFails == Init /\ [][NextWriteFails]_vars

\* C15: a request that has computed its aggregate returns it to its caller
\* whether or not the cache write succeeds.
C15_WriteFailureNonFatal ==
    [][\A i \in CompIds :
        (comp[i].pc = "writePut" /\ comp'[i].pc = "idle") =>
            (ended'.outcome = "computed" /\ ended'.stats = comp[i].stats)]_vars

\* ------------------------------------------------------------------ C17
\* C17: a computation whose AbortSignal has been aborted performs no later
\* write to a cache table or to the ledger: the step of an aborted request
\* that ends writeCompanyCache leaves the tables as they were.
C17_NoWriteAfterAbort ==
    [][\A i \in CompIds :
        (comp[i].aborted /\ comp[i].pc = "writePut" /\ comp'[i].pc = "idle") =>
            (cache' = cache /\ ledger' = ledger)]_vars

\* ------------------------------------------------------------------ C16, C18, C19, C20
\* The lazy scheduler while cards come into view.
NextSched ==
    \/ useCompanyStatsLazy_effect
    \/ \E p \in PassIds, w \in WorkerIds : useCompanyStatsLazy_resolved(p, w)
    \/ \E p \in PassIds, w \in WorkerIds : useCompanyStatsLazy_rejected(p, w)

SpecSched == Init /\ [][NextSched]_vars

\* Every getCompanyStats call in flight settles; a call may always resolve.
SpecSchedFair ==
    /\ Init
    /\ [][NextSched]_vars
    /\ \A p \in PassIds, w \in WorkerIds : WF_vars(useCompanyStatsLazy_resolved(p, w))

\* C16: under fair scheduling every visible company whose computation does not
\* fail eventually has its aggregate in statsByCompany, also when the visible
\* set changed, and the previous pass was aborted, while the company's
\* computation was in flight.
C16_VisibleEventuallyPublished ==
    \A c \in CardNames :
        [](c \in SeqToSet(visible) => <>(c \in statsByCompany \/ c \in failed))

RunningCalls == {pw \in PassIds \X WorkerIds : Running(pw[1], pw[2])}

\* C18: the in-flight set holds exactly the keys of the scheduler's running
\* computations: the key of a computation that ended, by success, thrown error
\* or cancellation, is gone, and the set is empty whenever none is running.
C18_MarkersReleased ==
    inFlight = {SchedKey(pass[pw[1]].manifestAt, pass[pw[1]].worker[pw[2]].name) : pw \in RunningCalls}

\* C18 witness: computations have ended in all three ways (one published, one
\* thrown, one discarded by an aborted pass), none is running and the in-flight
\* set is empty.
C18_Witness ==
    /\ RunningCalls = {}
    /\ inFlight = {}
    /\ statsByCompany # {}
    /\ failed # {}
    /\ \E c \in SeqToSet(visible) : c \notin statsByCompany /\ c \notin failed

\* C19: a computation that throws does not keep the companies queued behind it
\* in the same pass from being computed, however many computations of the
\* pass throw: a pass that was not aborted and still has companies in its
\* queue has a worker that will take them.
C19_FailuresIsolated ==
    \A p \in PassIds :
        (pass[p].started /\ ~pass[p].aborted /\ pass[p].q # <<>>) =>
            \E w \in WorkerIds : pass[p].worker[w].pc = "running"

\* C20: at most 2 computations started by the scheduler are running at any
\* moment, counted over all passes, aborted ones included.
C20_AtMostTwoRunning == Cardinality(RunningCalls) <= PoolLimit

\* ------------------------------------------------------------------ C21, C26
\* getCompanyStats 62-66: withConcurrency(company.files, 3, ...) over the
\* file entries of a company, which are objects.
getCompanyStats_withConcurrency(id) ==
    /\ withConcurrency_call(id)
    /\ pool'[id].limit = FetchLimit
    /\ \A n \in 1..Len(pool'[id].items) : pool'[id].items[n] = "f"

\* The file fetches of computations running side by side.
NextFetchPools ==
    \/ \E id \in PoolIds : getCompanyStats_withConcurrency(id)
    \/ \E id \in PoolIds, w \in 1..MaxLimit : withConcurrency_fnResolves(id, w)
    \/ \E id \in PoolIds, w \in 1..MaxLimit : withConcurrency_fnRejects(id, w)

SpecFetchPools == Init /\ [][NextFetchPools]_vars

\* One withConcurrency call with any items and any limit.
NextPool ==
    \/ withConcurrency_call(1)
    \/ \E w \in 1..MaxLimit : withConcurrency_fnResolves(1, w)
    \/ \E w \in 1..MaxLimit : withConcurrency_fnRejects(1, w)

SpecPool == Init /\ [][NextPool]_vars

InProgress(id) == {w \in 1..Len(pool[id].worker) : pool[id].state # "none" /\ pool[id].worker[w].pc = "awaiting"}

\* C21: a withConcurrency call made with limit 3, as getCompanyStats makes it
\* for the files of a company, has at most 3 invocations of its callback (the
\* loadCsv fetches) in progress at any time, however many items it was given;
\* each call has this bound for itself.
C21_AtMostThreeFetches ==
    \A id \in PoolIds : pool[id].limit = FetchLimit => Cardinality(InProgress(id)) <= FetchLimit

\* C21 witness: a call with limit 3 and four files has three fetches in
\* progress and one file waiting, while another call has fetches of its own.
C21_Witness ==
    /\ pool[1].limit = FetchLimit /\ Len(pool[1].items) = 4
    /\ Cardinality(InProgress(1)) = FetchLimit /\ Len(pool[1].q) = 1
    /\ pool[2].limit = FetchLimit /\ Cardinality(InProgress(2)) >= 1

\* C26: withConcurrency invokes fn exactly once for every element of items,
\* whatever its value, and when no invocation throws its promise resolves only
\* after every invocation has completed, for every limit >= 1.
C26_EveryItemOnce ==
    (pool[1].state # "none" /\ pool[1].limit >= 1) =>
        /\ \A n \in 1..Len(pool[1].items) : pool[1].invoked[n] <= 1
        /\ pool[1].state = "resolved" =>
              \A n \in 1..Len(pool[1].items) : pool[1].invoked[n] = 1 /\ n \in pool[1].completed

\* ------------------------------------------------------------------ C22
\* The lazy scheduler while cards come into view and the manifest changes.
NextSchedManifest ==
    \/ useCompanyStatsLazy_effect
    \/ useCompanyStatsLazy_manifestChange
    \/ \E p \in PassIds, w \in WorkerIds : useCompanyStatsLazy_resolved(p, w)
    \/ \E p \in PassIds, w \in WorkerIds : useCompanyStatsLazy_rejected(p, w)

SpecSchedManifest == Init /\ [][NextSchedManifest]_vars

\* C22: a change of manifestAt empties the published map and leaves in the
\* in-flight set only keys of the new generation; and an aggregate enters
\* statsByCompany only from a computation that was started under the current
\* manifestAt, so nothing computed under an earlier generation is published
\* after the change, computations in flight at the change included.
C22_OldGenerationNeverPublished ==
    [][/\ lastManifestRef' # lastManifestRef =>
            (statsByCompany' = {} /\ \A k \in inFlight' : k[1] = lastManifestRef')
       /\ \A c \in CardNames :
            (c \in statsByCompany' /\ c \notin statsByCompany) =>
                \E p \in PassIds, w \in WorkerIds :
                    /\ Running(p, w) /\ pass[p].worker[w].name = c
                    /\ pass'[p].worker[w] # pass[p].worker[w]
                    /\ pass[p].manifestAt = lastManifestRef]_vars

\* C22 witness: after the change a computation started under the first
\* manifest is still running, and the new generation has already published.
C22_Witness ==
    /\ lastManifestRef # FirstManifestAt
    /\ statsByCompany # {}
    /\ \E p \in PassIds, w \in WorkerIds : Running(p, w) /\ pass[p].manifestAt = FirstManifestAt

\* ------------------------------------------------------------------ C23
\* The lazy scheduler's computations while the user toggles problems; every
\* fetch succeeds and no effect is cleaned up, so that every computation
\* covers all the links of its company.
NextBehind ==
    \/ \E i \in CompIds : useCompanyStatsLazy_task(i)
    \/ \E i \in CompIds : getCompanyStats_cached(i)
    \/ \E i \in CompIds : loadCsv_resolve(i)
    \/ \E i \in CompIds : getCompanyStats_query(i)
    \/ \E i \in CompIds : getCompanyStats_writeVersion(i)
    \/ \E i \in CompIds : getCompanyStats_writePut(i)
    \/ \E i \in MutIds : FilePreviewPage_toggle(i)
    \/ \E i \in MutIds : toggleCompleted_put(i)

SpecBehind == Init /\ [][NextBehind]_vars

\* The number of completed items of company c in the ledger.
SolvedNow(c) == Cardinality({l \in CompanyLinks(c) : ledger[l].exists /\ ledger[l].completed})

\* The row request i has fetched from companyCache is the entry of its key,
\* the entry was written after the last mutation of its scope committed, and
\* its solved count is not the ledger's: it was computed from a ledger read
\* that the mutation overtook.
WrittenBehind(i) ==
    LET k == makeKey(comp[i].manifestAt, comp[i].company, "-")
    IN  /\ comp[i].row.exists
        /\ comp[i].row = cache["companyCache"][k]
        /\ <<"companyCache", k>> \notin dirty
        /\ comp[i].row.data.solvedAll # SolvedNow(comp[i].company)

\* C23: an entry written by a computation whose ledger read preceded a
\* mutation that committed before its cache write is not returned by a cache
\* read made after the mutation: the read finds the version counter beyond
\* the entry's stamp and reports a miss.
C23_WrittenBehindNotServed ==
    [][\A i \in CompIds :
        (comp[i].pc = "cacheGot" /\ NoMutationInFlight /\ WrittenBehind(i)) =>
            ~(comp'[i].pc = "idle" /\ ended'.outcome = "hit")]_vars

\* ------------------------------------------------------------------ C24
\* The rows of the files of company c, in the order of company.files and, in
\* a file, in the order of its rows.
RECURSIVE SourceRows(_, _)
SourceRows(c, n) ==
    IF n > Len(CompanyFiles[c]) THEN <<>>
    ELSE CsvItems[CompanyFiles[c][n]] \o SourceRows(c, n + 1)

\* The tag of link l in the earliest source of company c that has it.
EarliestSourceTag(c, l) ==
    LET rows == SourceRows(c, 1)
        first == CHOOSE n \in 1..Len(rows) :
                    rows[n].link = l /\ \A m \in 1..(n - 1) : rows[m].link # l
    IN  rows[first].difficulty

\* C24: a link that the files of a company tag differently is counted in the
\* bucket of the earliest file, in the order of company.files, that has it,
\* in whatever order the concurrent fetches complete: the totals of the
\* aggregate are a function of the company's CSV data alone.
C24_EarliestSourceWins ==
    \A i \in CompIds :
        (HoldsAggregate(i) /\ comp[i].work.skipped = {}) =>
            \A d \in Difficulty :
                Bucket(comp[i].stats, d).total =
                    Cardinality({l \in CompanyLinks(comp[i].company) :
                                    EarliestSourceTag(comp[i].company, l) = d})

\* ------------------------------------------------------------------ C25
\* The lazy scheduler's computations over the companies of the manifest, one
\* of which has no problem rows; no mutation, no cleanup, no failing fetch.
NextEmpty ==
    \/ \E i \in CompIds : useCompanyStatsLazy_task(i)
    \/ \E i \in CompIds : useCompanyStatsLazy_emptyTask(i)
    \/ \E i \in CompIds : getCompanyStats_cached(i)
    \/ \E i \in CompIds : loadCsv_resolve(i)
    \/ \E i \in CompIds : getCompanyStats_query(i)
    \/ \E i \in CompIds : getCompanyStats_writeVersion(i)
    \/ \E i \in CompIds : getCompanyStats_writePut(i)

SpecEmpty == Init /\ [][NextEmpty]_vars

\* C25: when a getCompanyStats request that missed the cache returns
\* normally, the company's cache entry exists, holds the returned aggregate
\* and is stamped with the current version, also for a company with zero
\* items; a request repeated at once is then a cache hit.
C25_RecomputationWritesCache ==
    [][\A i \in CompIds :
        (Live(i) /\ comp'[i].pc = "idle" /\ ended'.outcome \in {"computed", "empty"}) =>
            LET row == cache'["companyCache"][makeKey(comp[i].manifestAt, comp[i].company, "-")]
            IN  /\ row.exists
                /\ row.progressVersion = getProgressVersion'
                /\ readCompanyCache_validate(row, getProgressVersion').stats = ended'.stats]_vars

\* ------------------------------------------------------------------ C27
\* C27: setMinutes and setNotes leave the completed flag of an existing record
\* as it is in the ledger when their put is applied, also when a
\* toggleCompleted on the same key ran between their read and their put.
C27_MinutesNotesKeepCompleted ==
    [][\A i \in MutIds :
        (/\ mut[i].pc = "put" /\ mut[i].op \in {"minutes", "notes"} /\ mut'[i].pc = "idle"
         /\ ledger[mut[i].link].exists) =>
            ledger'[mut[i].link].completed = ledger[mut[i].link].completed]_vars

\* ------------------------------------------------------------------ C28
\* The buckets of a company aggregate add up to its overall counts, and no
\* count of solved items exceeds its total.
ConsistentStats(st) ==
    /\ st.easy.total + st.medium.total + st.hard.total = st.total.total
    /\ st.easy.solved + st.medium.solved + st.hard.solved = st.total.solved
    /\ \A b \in {st.easy, st.medium, st.hard, st.total} : b.solved <= b.total

\* C28: every aggregate that getCompanyStats holds after its ledger read,
\* returns (from the cache, computed, or as the empty aggregate) or has put
\* in companyCache is consistent, while toggles commit and effects are
\* cleaned up at any point of the computation.
C28_AggregatesConsistent ==
    /\ \A i \in CompIds : comp[i].pc \in {"writeVersion", "writePut"} => ConsistentStats(comp[i].stats)
    /\ ended.outcome \in {"hit", "computed", "empty"} => ConsistentStats(ended.stats)
    /\ \A k \in CacheKeys("companyCache") :
          cache["companyCache"][k].exists =>
              ConsistentStats(readCompanyCache_validate(cache["companyCache"][k],
                                  cache["companyCache"][k].progressVersion).stats)

\* C28 witness: a toggle committed and a cleanup ran while aggregates were
\* computed; an aggregate with a solved item is stored for one company and
\* another request has returned.
C28_Witness ==
    /\ nCommitted > 0
    /\ \E k \in CacheKeys("companyCache") :
          /\ cache["companyCache"][k].exists
          /\ cache["companyCache"][k].data.solvedAll > 0
          /\ cache["companyCache"][k].data.totalAll > cache["companyCache"][k].data.solvedAll
    /\ ended.outcome = "computed" /\ ended.stats.total.solved > 0

\* ------------------------------------------------------------------ C29
\* The pinned-company computations of LandingPage while problems are toggled
\* in another tab of the application; every fetch succeeds and the effect is
\* not cleaned up.
NextPinnedLedger ==
    \/ \E i \in PinIds : LandingPage_task(i)
    \/ \E i \in PinIds : getPinnedCompanyStats_cached(i)
    \/ \E i \in PinIds : getPinnedCompanyStats_loadCsv(i)
    \/ \E i \in PinIds : getPinnedCompanyStats_listQuery(i)
    \/ \E i \in PinIds : getPinnedCompanyStats_overall(i)
    \/ \E i \in PinIds : getPinnedCompanyStats_writeVersion(i)
    \/ \E i \in PinIds : getPinnedCompanyStats_writePut(i)
    \/ \E i \in MutIds : toggleCompleted_get(i)
    \/ \E i \in MutIds : toggleCompleted_put(i)

SpecPinnedLedger == Init /\ [][NextPinnedLedger]_vars

\* No list of a pinned-company result has more solved items, or more items,
\* than the company overall.
ListsWithinOverall(st) ==
    \A n \in 1..Len(st.perList.val) :
        /\ st.perList.val[n].solved <= st.overall.solved
        /\ st.perList.val[n].total <= st.overall.total

\* C29: every pinned-company result that getPinnedCompanyStats has built,
\* returned or put in pinnedLandingCache has perList[list].solved <=
\* overall.solved and perList[list].total <= overall.total for each of its
\* lists, as results taken from one ledger snapshot have, also when toggles
\* commit between the computation's ledger reads.
C29_PinnedOneSnapshot ==
    /\ \A i \in PinIds :
          pinComp[i].pc \in {"writeVersion", "writePut"} =>
              ListsWithinOverall([overall |-> pinComp[i].overall, perList |-> pinComp[i].perList])
    /\ pinEnded.outcome \in {"hit", "computed"} => ListsWithinOverall(pinEnded.stats)
    /\ \A k \in CacheKeys("pinnedLandingCache") :
          cache["pinnedLandingCache"][k].exists =>
              ListsWithinOverall(readPinnedLandingCache_validate(cache["pinnedLandingCache"][k],
                                     cache["pinnedLandingCache"][k].progressVersion).stats)

\* ------------------------------------------------------------------ C30
\* The tracker's background worker handling OPEN_SAVE_POPUP messages while
\* time passes; every pending putDraft and openSaveUI call settles.
NextPopup ==
    \/ Date_now_advance
    \/ \E r \in PopupReqIds : onMessage_OPEN_SAVE_POPUP(r)
    \/ \E r \in PopupReqIds : putDraft_resolves(r)
    \/ \E r \in PopupReqIds : putDraft_rejects(r)
    \/ \E r \in PopupReqIds : openSaveUI_resolves(r)
    \/ \E r \in PopupReqIds : openSaveUI_rejects(r)

SpecPopupFair ==
    /\ Init
    /\ [][NextPopup]_vars
    /\ \A r \in PopupReqIds :
          /\ WF_vars(putDraft_resolves(r) \/ putDraft_rejects(r))
          /\ WF_vars(openSaveUI_resolves(r) \/ openSaveUI_rejects(r))

\* C30: whenever popupInFlight is true it eventually returns to false, also
\* when storing the draft or opening the save UI failed; the breaker never
\* stays open for the rest of the worker's life.
C30_BreakerRecovers == popupInFlight ~> ~popupInFlight

====
